---- MODULE Spec2Model ----
(***************************************************************************)
(* Verification model of the trash-trade simulated perpetual-futures       *)
(* engine: PositionService, PortfolioService, StrategyRunner, the built-in *)
(* strategies, MarketStateManager, REST warmup and the WebSocket client.    *)
(*                                                                         *)
(* Numbers.  Prices and quantities are integers; money (balance, fee,      *)
(* pnl, notional) is kept in tenths of a USDT, so the Python float          *)
(* arithmetic becomes integer arithmetic with truncating division.          *)
(***************************************************************************)
EXTENDS Integers, Sequences, FiniteSets, TLC

\* ------------------------------------------------------------------ bounds
\* events (bar closes, ticks, restarts) of one run of the engine
MaxEvents == 4
MaxTicks == 2
MaxRestarts == 1
\* events and faults of one run of the engine with faults
FaultEvents == 2
MaxFaults == 1
\* handler runs and funding_loop cycles of one run of the ingestion task
\* beside the funding task
FundEvents == 2
MaxCycles == 2
\* steps of one run of the market-data side, and the bars a warmup asks for
\* on each interval (compute_warmup asks for 500 and 200 at least)
MaxFeedEvents == 6
WarmupBars == 3

\* ------------------------------------------------------- configuration
\* strategy ids in configuration (dict insertion) order
AllSids == <<"s1", "s2">>
Range(seq) == {seq[i] : i \in DOMAIN seq}

\* Strategy profiles: the registered type and the params the runner reads.
\* The registry defaults are realtime_exit off for "test" and on for
\* "simple_rsi_overtrade_strategy"; a profile may set either.  "plugin" is a
\* strategy registered through register_strategy.
Profiles ==
  {[type |-> "test", realtime_entry |-> FALSE, realtime_exit |-> e] : e \in BOOLEAN}
  \cup {[type |-> "simple_rsi_overtrade_strategy", realtime_entry |-> FALSE,
          realtime_exit |-> TRUE],
         [type |-> "plugin", realtime_entry |-> FALSE, realtime_exit |-> TRUE]}

InitialCapital == 1000
MaxLeverage == 20
FeeRatePer10k == 4
MaxPositionNotional == 20000
MaxPositionPctEquity == 1
CooldownAfterStop == 2
\* params stop_loss_pct = 0.01 (in percent) and rr = 1.5 (in halves)
StopLossPct == 1
RrHalves == 3

\* money in tenths
Tenths(x) == x * 10

Prices == {197, 200, 203}
\* fundingTime values of the fundingRate entries the exchange publishes
FundingTimes == {1, 2}
\* atr_stop_mult * ATR as seen by the strategies that size the stop by ATR
StopDistances == {3}

Min(a, b) == IF a < b THEN a ELSE b
Max(a, b) == IF a > b THEN a ELSE b
Abs(a) == IF a < 0 THEN -a ELSE a

\* F applied to the value of v (one statement after another)
Bind(v, F(_)) == CHOOSE r \in {F(x) : x \in {v}} : TRUE

\* ------------------------------------------------------------ data model
NoPos == [side |-> "NONE", entry_price |-> 0, qty |-> 0, stop_price |-> 0,
          tp1_price |-> 0, tp2_price |-> 0, tp1_hit |-> FALSE]

NoRow == [position_id |-> 0, strategy |-> "", side |-> "NONE", qty |-> 0,
          entry_price |-> 0, margin |-> 0, stop_price |-> 0, tp1_price |-> 0,
          tp2_price |-> 0, status |-> "NONE", realized_pnl |-> 0,
          fees_total |-> 0, close_reason |-> ""]

AccountState(cap) == [balance |-> cap, equity |-> cap, upl |-> 0,
                      margin_used |-> 0, free_margin |-> cap]

\* ------------------------------------------------------------ Database
\* One committed write.  `failAt` numbers the write of the running handler
\* that fails (or at which the task is cancelled); 0 means none does.
DbWrite(w, table, rows) ==
  IF w.aborted THEN w
  ELSE IF w.nwrites + 1 = w.failAt
       THEN [w EXCEPT !.aborted = TRUE, !.nwrites = @ + 1]
       ELSE [w EXCEPT ![table] = rows, !.nwrites = @ + 1]

OpenRowIds(rows, sid) ==
  {i \in DOMAIN rows : rows[i].status = "OPEN" /\ rows[i].strategy = sid}

\* SELECT * FROM positions WHERE status='OPEN' AND strategy=? ORDER BY
\* entry_time DESC LIMIT 1 (entry_time grows with position_id)
get_open_position(rows, sid) ==
  LET ids == OpenRowIds(rows, sid)
  IN IF ids = {} THEN NoRow
     ELSE rows[CHOOSE i \in ids : \A j \in ids : j <= i]

\* -------------------------------------------------------- PortfolioService
calc_realized_pnl(pos, price, qty) ==
  IF pos.side = "LONG" THEN Tenths((price - pos.entry_price) * qty)
  ELSE Tenths((pos.entry_price - price) * qty)

StatusOf(acc, pos, price) ==
  LET upl == IF pos # NoPos THEN calc_realized_pnl(pos, price, pos.qty) ELSE 0
      margin_used == IF pos # NoPos THEN Tenths(pos.qty * price) \div MaxLeverage ELSE 0
      equity == acc.balance + upl
  IN [acc EXCEPT !.upl = upl, !.equity = equity, !.margin_used = margin_used,
                 !.free_margin = equity - margin_used]

update_status(w, price) ==
  IF w.aborted THEN w
  ELSE [w EXCEPT !.accounts = [sid \in Range(w.sids) |->
                                 StatusOf(w.accounts[sid], w.positions[sid], price)],
                 !.statusRuns = @ + 1]

\* int(time.time() * 1000), in a unit of time in which two reads of the clock
\* that a committed snapshot row lies between differ
now_ms(w) == Len(w.snapshots) + 1

SnapshotRow(w, sid, now) ==
  [strategy |-> sid, timestamp |-> now, balance |-> w.accounts[sid].balance,
   equity |-> w.accounts[sid].equity, upl |-> w.accounts[sid].upl,
   margin_used |-> w.accounts[sid].margin_used,
   free_margin |-> w.accounts[sid].free_margin]

RECURSIVE SnapshotFrom(_, _, _)
SnapshotFrom(w, i, now) ==
  IF i > Len(w.sids) THEN w
  ELSE SnapshotFrom(DbWrite(w, "snapshots",
                            Append(w.snapshots, SnapshotRow(w, w.sids[i], now))),
                    i + 1, now)

snapshot_equity(w) ==
  Bind(SnapshotFrom(w, 1, now_ms(w)), LAMBDA v :
    IF v.aborted THEN v ELSE [v EXCEPT !.snapshotRuns = @ + 1])

\* The funding settlement of one strategy inside apply_funding.
FundingSkipsNever(rows, force) == FALSE
FundingSkips(rows, force) == rows /\ ~force

HasFundingEntry(ledger, sid, fr_time) ==
  \E i \in DOMAIN ledger : ledger[i].strategy = sid /\ ledger[i].type = "funding"
                            /\ ledger[i].ref = fr_time

FundingPnl(pos, price, rate) ==
  (Tenths(pos.qty * price) * rate * (IF pos.side = "LONG" THEN 1 ELSE -1)) \div 10000

PriceFor(price_hint, last_price, pos) ==
  IF price_hint # 0 THEN price_hint
  ELSE IF last_price # 0 THEN last_price ELSE pos.entry_price

\* lines 193-209: the balance change and the ledger entry of one settlement;
\* `settled` records each balance change
FundSettle(w, sid, pos, fr, price_hint) ==
  Bind(FundingPnl(pos, PriceFor(price_hint, w.lastPrice, pos), fr.rate),
    LAMBDA pnl :
      DbWrite([w EXCEPT !.accounts[sid].balance = @ + pnl,
                        !.settled = Append(@, <<sid, fr.time>>)],
              "ledger",
              Append(w.ledger, [strategy |-> sid, type |-> "funding",
                                amount |-> pnl, ref |-> fr.time])))

FundOne(w, sid, fr, force, price_hint) ==
  IF w.aborted \/ w.positions[sid] = NoPos THEN w
  ELSE IF FundingSkips(HasFundingEntry(w.ledger, sid, fr.time), force) THEN w
  ELSE FundSettle(w, sid, w.positions[sid], fr, price_hint)

RECURSIVE FundFrom(_, _, _, _, _)
FundFrom(w, ids, fr, force, price_hint) ==
  IF ids = <<>> THEN w
  ELSE FundFrom(FundOne(w, Head(ids), fr, force, price_hint), Tail(ids), fr, force, price_hint)

\* fr.ok: the fetch returned data; fr.near: |now - fundingTime| <= 3 minutes
apply_funding(w, fr, force, price_hint, sid) ==
  IF w.aborted THEN w
  ELSE IF ~fr.ok THEN [w EXCEPT !.fetched = TRUE]
  ELSE IF ~force /\ ~fr.near THEN [w EXCEPT !.fetched = TRUE]
  ELSE Bind(FundFrom([w EXCEPT !.fetched = TRUE],
                     IF sid # "" THEN <<sid>> ELSE w.sids, fr, force, price_hint),
         LAMBDA v :
           snapshot_equity(
             update_status(v, IF price_hint # 0 THEN price_hint ELSE v.lastPrice)))

\* --------------------------------------------------------- PositionService
decrement_cooldown(w, sid) ==
  IF w.cooldowns[sid] > 0
  THEN [w EXCEPT !.cooldowns[sid] = Max(0, @ - 1)]
  ELSE w

\* tp1_hit of a position rebuilt from its row by load_open_positions
LoadedTp1Hit(row) == FALSE

PositionFromRow(row) ==
  IF row = NoRow THEN NoPos
  ELSE [side |-> row.side, entry_price |-> row.entry_price, qty |-> row.qty,
        stop_price |-> row.stop_price, tp1_price |-> row.tp1_price,
        tp2_price |-> row.tp2_price, tp1_hit |-> LoadedTp1Hit(row)]

\* lines 49-51: the OPEN row of the strategy, else that of "default"
LoadedRow(rows, sid) ==
  IF get_open_position(rows, sid) = NoRow /\ sid # "default"
  THEN get_open_position(rows, "default") ELSE get_open_position(rows, sid)

load_open_positions(rows, ids) ==
  [sid \in ids |-> PositionFromRow(LoadedRow(rows, sid))]

\* the guard at the head of open_position
OpenIsNoopNever(pos) == FALSE
OpenIsNoop(pos) == pos # NoPos

\* the three committed writes of open_position (lines 96-148)
OpenWrites(w, sid, signal, qty, notional, fee) ==
  Bind(DbWrite(w, "dbPositions",
         Append(w.dbPositions,
           [position_id |-> Len(w.dbPositions) + 1, strategy |-> sid,
            side |-> signal.side, qty |-> qty, entry_price |-> signal.entry_price,
            margin |-> notional \div MaxLeverage, stop_price |-> signal.stop_price,
            tp1_price |-> signal.tp1_price, tp2_price |-> signal.tp2_price,
            status |-> "OPEN", realized_pnl |-> 0, fees_total |-> fee,
            close_reason |-> ""])),
    LAMBDA v2 :
  Bind(DbWrite(v2, "trades",
         Append(v2.trades,
           [trade_id |-> Len(v2.trades) + 1, strategy |-> sid,
            position_id |-> Len(w.dbPositions) + 1,
            side |-> IF signal.side = "LONG" THEN "BUY" ELSE "SELL",
            trade_type |-> "ENTRY", price |-> signal.entry_price, qty |-> qty,
            notional |-> notional, fee_amount |-> fee, reason |-> signal.reason])),
    LAMBDA v3 :
  DbWrite(v3, "ledger",
    Append(v3.ledger, [strategy |-> sid, type |-> "fee", amount |-> -fee,
                       ref |-> Len(v2.trades) + 1]))))

open_position(w, sid, signal) ==
  IF w.aborted THEN w
  ELSE IF OpenIsNoop(w.positions[sid]) THEN w
  ELSE
    Bind(Min(Tenths(MaxPositionNotional),
             w.accounts[sid].balance * MaxPositionPctEquity * MaxLeverage)
           \div Tenths(signal.entry_price),
      LAMBDA qty :
    Bind(Tenths(qty * signal.entry_price), LAMBDA notional :
    Bind((notional * FeeRatePer10k) \div 10000, LAMBDA fee :
      OpenWrites([w EXCEPT !.accounts[sid].balance = @ - fee,
                           !.positions[sid] =
                             [side |-> signal.side, entry_price |-> signal.entry_price,
                              qty |-> qty, stop_price |-> signal.stop_price,
                              tp1_price |-> signal.tp1_price,
                              tp2_price |-> signal.tp2_price, tp1_hit |-> FALSE]],
                 sid, signal, qty, notional, fee))))

\* abs(tp1 - tp2) > 1e-9
TpDistinctNever(tp1, tp2) == FALSE
TpDistinct(tp1, tp2) == Abs(tp1 - tp2) > 0

\* qty * 0.5
HalfQtyThird(qty) == qty \div 3
HalfQty(qty) == qty \div 2

\* cooldown written by a full close
CooldownAfterCloseAny(action, old) == CooldownAfterStop
CooldownAfterClose(action, old) ==
  IF action = "STOP" THEN CooldownAfterStop ELSE old

\* close_by_action after its two first writes: the TP1 branch (lines 272-306)
CloseTp1(w, sid, pos, row, qty_to_close, realized, fee) ==
  Bind([w EXCEPT !.positions[sid] =
                   [pos EXCEPT !.qty = @ - qty_to_close, !.tp1_hit = TRUE,
                               !.stop_price = pos.entry_price]],
    LAMBDA v4 :
      IF row = NoRow THEN [v4 EXCEPT !.aborted = TRUE]
      ELSE DbWrite(v4, "dbPositions",
             [v4.dbPositions EXCEPT ![row.position_id] =
                [@ EXCEPT !.qty = v4.positions[sid].qty,
                          !.stop_price = v4.positions[sid].stop_price,
                          !.realized_pnl = @ + realized, !.fees_total = @ + fee]]))

\* close_by_action after its two first writes: the full close (lines 308-358)
CloseAll(w, sid, action, row, realized, fee, trade_id) ==
  IF row = NoRow THEN [w EXCEPT !.aborted = TRUE]
  ELSE
    Bind(DbWrite(w, "dbPositions",
           [w.dbPositions EXCEPT ![row.position_id] =
              [@ EXCEPT !.status = "CLOSED", !.realized_pnl = @ + realized,
                        !.fees_total = @ + fee, !.close_reason = action.reason]]),
      LAMBDA v4 :
        IF v4.aborted THEN v4
        ELSE
          Bind(DbWrite([v4 EXCEPT
                          !.cooldowns[sid] = CooldownAfterClose(action.action, @),
                          !.sinceStop[sid] = IF action.action = "STOP" THEN 0 ELSE @,
                          !.positions[sid] = NoPos],
                       "ledger",
                       Append(v4.ledger, [strategy |-> sid, type |-> "realized_pnl",
                                          amount |-> realized, ref |-> trade_id])),
            LAMBDA v6 : apply_funding(v6, v6.fr, TRUE, action.price, sid)))

\* close_by_action from the balance change on (lines 216-358)
CloseWrites(w, sid, action, pos, qty_to_close, realized, fee) ==
  Bind(get_open_position(w.dbPositions, sid), LAMBDA row :
  Bind(DbWrite([w EXCEPT !.accounts[sid].balance = @ + realized - fee], "trades",
         Append(w.trades,
           [trade_id |-> Len(w.trades) + 1, strategy |-> sid,
            position_id |-> row.position_id,
            side |-> IF pos.side = "LONG" THEN "SELL" ELSE "BUY",
            trade_type |-> "EXIT", price |-> action.price, qty |-> qty_to_close,
            notional |-> Tenths(qty_to_close * action.price), fee_amount |-> fee,
            reason |-> action.reason])),
    LAMBDA v2 :
  Bind(DbWrite(v2, "ledger",
         Append(v2.ledger, [strategy |-> sid, type |-> "fee", amount |-> -fee,
                            ref |-> Len(w.trades) + 1])),
    LAMBDA v3 :
      IF v3.aborted THEN v3
      ELSE IF action.action = "TP1"
           THEN CloseTp1(v3, sid, pos, row, qty_to_close, realized, fee)
           ELSE CloseAll(v3, sid, action, row, realized, fee, Len(w.trades) + 1))))

\* the part of close_by_action after the TP1 synthesis (lines 206-358)
\* close_by_action lines 211-214: a TP1 on a position that already took it returns
ReturnsOnTp1HitNever(action, pos) == FALSE
ReturnsOnTp1Hit(action, pos) == action.action = "TP1" /\ pos.tp1_hit

CloseBody(w, sid, action) ==
  IF ReturnsOnTp1Hit(action, w.positions[sid]) THEN w
  ELSE
    Bind(IF action.action = "TP1" /\ ~w.positions[sid].tp1_hit
         THEN HalfQty(w.positions[sid].qty)
         ELSE w.positions[sid].qty,
      LAMBDA qty_to_close :
        CloseWrites(w, sid, action, w.positions[sid], qty_to_close,
                    calc_realized_pnl(w.positions[sid], action.price, qty_to_close),
                    (Tenths(qty_to_close * action.price) * FeeRatePer10k) \div 10000))

\* whether a TP2 first books the TP1 leg
SynthesizesTp1(action, pos) ==
  action.action = "TP2" /\ ~pos.tp1_hit /\ TpDistinct(pos.tp1_price, pos.tp2_price)

close_by_action(w, sid, action) ==
  IF w.aborted \/ w.positions[sid] = NoPos THEN w
  ELSE
    Bind(IF SynthesizesTp1(action, w.positions[sid])
         THEN CloseBody(w, sid, [action |-> "TP1", price |-> w.positions[sid].tp1_price,
                                 reason |-> "tp1"])
         ELSE w,
      LAMBDA vA :
        IF vA.aborted \/ vA.positions[sid] = NoPos THEN vA
        ELSE CloseBody(vA, sid, action))

\* -------------------------------------------------------------- strategies
NoDecision == [type |-> "none", side |-> "NONE", entry_price |-> 0, stop_price |-> 0,
               tp1_price |-> 0, tp2_price |-> 0, action |-> "", price |-> 0,
               reason |-> ""]

EntrySignal(side, entry, stop, tp1, tp2, reason) ==
  [NoDecision EXCEPT !.type = "entry", !.side = side, !.entry_price = entry,
                     !.stop_price = stop, !.tp1_price = tp1, !.tp2_price = tp2,
                     !.reason = reason]

ExitAction(action, price, reason) ==
  [NoDecision EXCEPT !.type = "exit", !.action = action, !.price = price,
                     !.reason = reason]

Raised == [NoDecision EXCEPT !.type = "raise"]

\* test_strategy._calc_targets / ma_cross_strategy._calc_targets
CalcTargets(entry, stop) ==
  LET r == Abs(entry - stop)
  IN IF entry > stop THEN <<entry + r, entry + 2 * r>>
     ELSE <<entry - r, entry - 2 * r>>

\* test_strategy._on_realtime_update
TestOnTick(pos, price) ==
  IF pos = NoPos THEN NoDecision
  ELSE IF pos.side = "LONG" THEN
    IF price <= pos.stop_price THEN ExitAction("STOP", pos.stop_price, "stop")
    ELSE IF ~pos.tp1_hit /\ price >= pos.tp1_price THEN ExitAction("TP1", pos.tp1_price, "tp1")
    ELSE IF price >= pos.tp2_price THEN ExitAction("TP2", pos.tp2_price, "tp2")
    ELSE NoDecision
  ELSE
    IF price >= pos.stop_price THEN ExitAction("STOP", pos.stop_price, "stop")
    ELSE IF ~pos.tp1_hit /\ price <= pos.tp1_price THEN ExitAction("TP1", pos.tp1_price, "tp1")
    ELSE IF price <= pos.tp2_price THEN ExitAction("TP2", pos.tp2_price, "tp2")
    ELSE NoDecision

\* test_strategy._on_15m_close; inp.sig abstracts the indicator conditions
\* ("exit": the 15m trend failed, "long"/"short": the entry setup holds)
TestOnBarClose(pos, cooldown, price, inp) ==
  IF pos # NoPos THEN
    IF inp.sig = "exit" THEN ExitAction("CLOSE_ALL", price, "trend_fail") ELSE NoDecision
  ELSE IF cooldown > 0 THEN NoDecision
  ELSE IF inp.sig = "long" THEN
    LET stop == price - inp.dist
        tp == CalcTargets(price, stop)
    IN EntrySignal("LONG", price, stop, tp[1], tp[2], "signal_long")
  ELSE IF inp.sig = "short" THEN
    LET stop == price + inp.dist
        tp == CalcTargets(price, stop)
    IN EntrySignal("SHORT", price, stop, tp[1], tp[2], "signal_short")
  ELSE NoDecision

\* SimpleRsiOvertradeStrategy._check_exit
SimpleCheckExit(pos, price) ==
  IF pos = NoPos THEN NoDecision
  ELSE IF pos.side = "LONG" THEN
    IF price <= pos.stop_price THEN ExitAction("STOP", pos.stop_price, "stop")
    ELSE IF price >= pos.tp2_price THEN ExitAction("TP2", pos.tp2_price, "tp2")
    ELSE NoDecision
  ELSE
    IF price >= pos.stop_price THEN ExitAction("STOP", pos.stop_price, "stop")
    ELSE IF price <= pos.tp2_price THEN ExitAction("TP2", pos.tp2_price, "tp2")
    ELSE NoDecision

\* SimpleRsiOvertradeStrategy._check_entry; inp.sig abstracts rsi < rsi_low
\* ("long") and rsi > rsi_high ("short")
SimpleCheckEntryWith(price, inp, stop_loss_pct) ==
  IF inp.sig = "long" THEN
    LET stop == (price * (100 - stop_loss_pct)) \div 100
        tp == price + ((price - stop) * RrHalves) \div 2
    IN EntrySignal("LONG", price, stop, tp, tp, "rsi_long")
  ELSE IF inp.sig = "short" THEN
    LET stop == (price * (100 + stop_loss_pct)) \div 100
        tp == price - ((stop - price) * RrHalves) \div 2
    IN EntrySignal("SHORT", price, stop, tp, tp, "rsi_short")
  ELSE NoDecision

SimpleCheckEntry(price, inp) == SimpleCheckEntryWith(price, inp, StopLossPct)

\* atr_stop_mult = 1.5, in halves
AtrMultHalves == 3

\* test_strategy._choose_stop_long / _choose_stop_short; structure_stop is
\* <<>> (None) or <<price>>
choose_stop_long(entry, atr, structure_stop) ==
  Bind(entry - (AtrMultHalves * atr) \div 2, LAMBDA atr_stop :
    IF structure_stop = <<>> THEN atr_stop ELSE Min(structure_stop[1], atr_stop))
choose_stop_short(entry, atr, structure_stop) ==
  Bind(entry + (AtrMultHalves * atr) \div 2, LAMBDA atr_stop :
    IF structure_stop = <<>> THEN atr_stop ELSE Max(structure_stop[1], atr_stop))

\* ma_cross_strategy._choose_stop
choose_stop(entry, atr, structure_stop, side) ==
  IF side = "LONG"
  THEN Bind(entry - (AtrMultHalves * atr) \div 2, LAMBDA atr_stop :
         IF structure_stop # <<>> THEN Min(structure_stop[1], atr_stop) ELSE atr_stop)
  ELSE Bind(entry + (AtrMultHalves * atr) \div 2, LAMBDA atr_stop :
         IF structure_stop # <<>> THEN Max(structure_stop[1], atr_stop) ELSE atr_stop)

\* the EntrySignal _on_15m_close builds once the setup of a side holds
\* (lines 297-307, 328-338)
TestEntrySignal(side, entry, atr, structure_stop) ==
  Bind(IF side = "LONG" THEN choose_stop_long(entry, atr, structure_stop)
       ELSE choose_stop_short(entry, atr, structure_stop),
    LAMBDA stop :
      EntrySignal(side, entry, stop, CalcTargets(entry, stop)[1],
                  CalcTargets(entry, stop)[2],
                  IF side = "LONG" THEN "signal_long" ELSE "signal_short"))

\* the EntrySignal MaCrossStrategy.on_bar_close builds (lines 129-153)
MaCrossEntrySignal(side, entry, atr, structure_stop) ==
  Bind(choose_stop(entry, atr, structure_stop, side), LAMBDA stop :
    EntrySignal(side, entry, stop, CalcTargets(entry, stop)[1],
                CalcTargets(entry, stop)[2],
                IF side = "LONG" THEN "ma_long" ELSE "ma_short"))

\* whether the strategy looks at the cooldown before an entry
SimpleRefuses(cooldown) == cooldown > 0

\* SimpleRsiOvertradeStrategy.on_bar_close
SimpleOnBarClose(pos, cooldown, price, inp) ==
  IF pos # NoPos THEN SimpleCheckExit(pos, price)
  ELSE IF SimpleRefuses(cooldown) THEN NoDecision
  ELSE SimpleCheckEntry(price, inp)

\* A strategy registered through register_strategy: the IStrategy protocol
\* lets it answer any EntrySignal or ExitAction, whatever the context.
PluginDecision(pos, price, inp) ==
  CASE inp.sig = "long" ->
         EntrySignal("LONG", price, price - inp.dist, price + inp.dist,
                     price + 2 * inp.dist, "plugin_long")
    [] inp.sig = "stop" -> ExitAction("STOP", pos.stop_price, "stop")
    [] inp.sig = "tp1" -> ExitAction("TP1", pos.tp1_price, "tp1")
    [] inp.sig = "tp2" -> ExitAction("TP2", pos.tp2_price, "tp2")
    [] inp.sig = "exit" -> ExitAction("CLOSE_ALL", price, "plugin_close")
    [] OTHER -> NoDecision

on_bar_close(kind, pos, cooldown, price, inp) ==
  IF inp.exc = "decide" THEN Raised
  ELSE CASE kind = "test" -> TestOnBarClose(pos, cooldown, price, inp)
         [] kind = "simple_rsi_overtrade_strategy" -> SimpleOnBarClose(pos, cooldown, price, inp)
         [] OTHER -> PluginDecision(pos, price, inp)

on_tick(kind, pos, price, inp) ==
  IF inp.exc = "decide" THEN Raised
  ELSE CASE kind = "test" -> TestOnTick(pos, price)
         [] kind = "simple_rsi_overtrade_strategy" -> SimpleCheckExit(pos, price)
         [] OTHER -> PluginDecision(pos, price, inp)

\* The indicator conditions a strategy can meet in one call, as far as its
\* code looks at them: the built-in strategies read the entry conditions only
\* without a position and decide on_tick from the price alone.
SigsFor(handler, kind, pos) ==
  CASE kind = "test" ->
         IF handler = "update" THEN {"none"}
         ELSE IF pos = NoPos THEN {"none", "long", "short"} ELSE {"none", "exit"}
    [] kind = "simple_rsi_overtrade_strategy" ->
         IF handler = "update" \/ pos # NoPos THEN {"none"}
         ELSE {"none", "long", "short"}
    [] OTHER ->
         IF pos = NoPos THEN {"none", "long"}
         ELSE IF handler = "update" THEN {"none", "stop", "tp1", "tp2"}
         ELSE {"none", "long", "stop", "tp1", "tp2", "exit"}

\* ---------------------------------------------------------- StrategyRunner
\* What one call of the position service did, kept for the running handler.
CallRec(op, sid, action, pre, post) ==
  [op |-> op, sid |-> sid, action |-> action, pre |-> pre.positions[sid],
   post |-> post.positions[sid],
   t0 |-> Len(pre.trades), t1 |-> Len(post.trades),
   l0 |-> Len(pre.ledger), l1 |-> Len(post.ledger),
   rowsSame |-> pre.dbPositions = post.dbPositions,
   bal0 |-> pre.accounts[sid].balance, bal1 |-> post.accounts[sid].balance,
   cd0 |-> pre.cooldowns[sid], cd1 |-> post.cooldowns[sid],
   ok |-> ~post.aborted]

Dispatch(w, sid, d) ==
  IF d.type = "entry" THEN
    Bind(open_position(w, sid, d), LAMBDA post :
      [post EXCEPT !.calls = Append(@, CallRec("open", sid, "ENTRY", w, post)),
                   !.openK[sid] = IF post.positions[sid] # w.positions[sid]
                                  THEN w.sinceStop[sid] ELSE @])
  ELSE IF d.type = "exit" THEN
    Bind(close_by_action(w, sid, d), LAMBDA post :
      [post EXCEPT !.calls = Append(@, CallRec("close", sid, d.action, w, post))])
  ELSE w

\* the body of the loop of on_kline_close over the strategies of `res`
\* (lines 188-219)
RunnerCloseOne(w, sid, price, inp) ==
  IF w.aborted THEN w
  ELSE
    Bind([w EXCEPT !.sinceStop[sid] = IF @ >= 0 THEN @ + 1 ELSE @,
                   !.conds[sid] = IF inp.exc = "describe" THEN "error" ELSE "ok",
                   !.raised = IF inp.exc # "none" THEN @ \cup {sid} ELSE @,
                   !.processed = @ \cup {sid},
                   !.calledOn = Append(@, sid)],
      LAMBDA v0 :
    Bind(on_bar_close(w.profiles[sid].type, w.positions[sid], w.cooldowns[sid],
                      price, inp),
      LAMBDA d :
        IF d.type = "raise" THEN [v0 EXCEPT !.aborted = TRUE]
        ELSE Bind(Dispatch(v0, sid, d), LAMBDA v1 :
               IF v1.aborted THEN v1 ELSE decrement_cooldown(v1, sid))))

RECURSIVE RunnerCloseFrom(_, _, _, _)
RunnerCloseFrom(w, i, price, inps) ==
  IF i > Len(w.res) THEN w
  ELSE RunnerCloseFrom(RunnerCloseOne(w, w.res[i], price, inps[w.res[i]]), i + 1, price, inps)

\* on_kline_close up to the await that ends update_status
RunnerCloseHead(w, price, inps) ==
  update_status(RunnerCloseFrom([w EXCEPT !.lastPrice = price], 1, price, inps), price)

runner_on_kline_close(w, price, inps) ==
  snapshot_equity(RunnerCloseHead(w, price, inps))

\* whether on_kline_update calls on_tick of a strategy (lines 137-147)
TickDue(prof, pos) ==
  \/ prof.realtime_entry /\ pos = NoPos
  \/ prof.realtime_exit /\ pos # NoPos

\* the body of the per-strategy loop of on_kline_update (lines 93-171)
RunnerUpdateOne(w, sid, price, inp) ==
  IF w.aborted THEN w
  ELSE
    Bind(IF TickDue(w.profiles[sid], w.positions[sid])
         THEN on_tick(w.profiles[sid].type, w.positions[sid], price, inp)
         ELSE NoDecision,
      LAMBDA got :
    Bind(IF got.type = "raise" THEN NoDecision
         ELSE IF w.positions[sid] = NoPos /\ got.type = "entry" THEN got
         ELSE IF w.positions[sid] # NoPos /\ got.type = "exit" THEN got
         ELSE NoDecision,
      LAMBDA d :
    Bind(Dispatch([w EXCEPT !.raised = IF inp.exc = "describe" \/ got.type = "raise"
                                       THEN @ \cup {sid} ELSE @,
                            !.ticked = IF TickDue(w.profiles[sid], w.positions[sid])
                                       THEN @ \cup {sid} ELSE @,
                            !.processed = @ \cup {sid}], sid, d),
      LAMBDA v1 :
        IF v1.aborted THEN v1
        ELSE [v1 EXCEPT !.conds[sid] = IF inp.exc = "describe" THEN "error" ELSE "ok"])))

RECURSIVE RunnerUpdateFrom(_, _, _, _)
RunnerUpdateFrom(w, i, price, inps) ==
  IF i > Len(w.sids) THEN w
  ELSE RunnerUpdateFrom(RunnerUpdateOne(w, w.sids[i], price, inps[w.sids[i]]), i + 1, price, inps)

runner_on_kline_update(w, price, inps) ==
  update_status(RunnerUpdateFrom([w EXCEPT !.lastPrice = price], 1, price, inps), price)

\* ------------------------------------------------------- load_account_state
\* SELECT ... WHERE strategy=? ORDER BY timestamp DESC LIMIT 1 (0: no row)
LatestSnapshotOldest(snaps, sid) ==
  LET ids == {i \in DOMAIN snaps : snaps[i].strategy = sid}
  IN IF ids = {} THEN 0
     ELSE CHOOSE i \in ids : \A j \in ids : snaps[j].timestamp >= snaps[i].timestamp
LatestSnapshot(snaps, sid) ==
  LET ids == {i \in DOMAIN snaps : snaps[i].strategy = sid}
  IN IF ids = {} THEN 0
     ELSE CHOOSE i \in ids : \A j \in ids : snaps[j].timestamp <= snaps[i].timestamp

load_account_state(snaps, ids) ==
  [sid \in ids |->
     LET own == LatestSnapshot(snaps, sid)
         i == IF own = 0 /\ sid # "default" THEN LatestSnapshot(snaps, "default") ELSE own
     IN IF i = 0 THEN AccountState(Tenths(InitialCapital))
        ELSE [balance |-> snaps[i].balance, equity |-> snaps[i].equity,
              upl |-> snaps[i].upl, margin_used |-> snaps[i].margin_used,
              free_margin |-> snaps[i].free_margin]]

\* ============================================================== market data
\* Bars are named by their open_time, counted in bars of their interval since
\* the listing of the symbol (bar 1).  Of each interval the exchange has one
\* bar that is still forming, `now`, and the closed bars before it.

\* settings.binance.intervals
IntervalSeq == <<"15m", "1h">>
IntervalSet == Range(IntervalSeq)

IndicatorSpec(name, interval, kind) ==
  [name |-> name, interval |-> interval, kind |-> kind]

\* TestStrategy.indicator_requirements
TestRequirements ==
  <<IndicatorSpec("ema20_15m", "15m", "ema"), IndicatorSpec("ema60_15m", "15m", "ema"),
    IndicatorSpec("rsi14_15m", "15m", "rsi"), IndicatorSpec("macd_hist_15m", "15m", "macd"),
    IndicatorSpec("atr14_15m", "15m", "atr"), IndicatorSpec("ema20_1h", "1h", "ema"),
    IndicatorSpec("ema60_1h", "1h", "ema"), IndicatorSpec("rsi14_1h", "1h", "rsi")>>

\* SimpleRsiOvertradeStrategy.indicator_requirements
SimpleRsiRequirements == <<IndicatorSpec("rsi14_15m", "15m", "rsi")>>

\* build_specs_from_legacy of one interval of an old-style requirement dict
\* {interval: {"ema": [fast, slow], "rsi": n}}
LegacySpecs(interval) ==
  <<IndicatorSpec("ema_fast", interval, "ema"), IndicatorSpec("ema_slow", interval, "ema"),
    IndicatorSpec("rsi", interval, "rsi")>>

\* A registered plugin may still declare the old-style dict, on both intervals.
build_specs_from_legacy == LegacySpecs("15m") \o LegacySpecs("1h")

\* MarketStateManager.compute_warmup: the spec list of a strategy
indicator_specs(type) ==
  CASE type = "test" -> TestRequirements
    [] type = "simple_rsi_overtrade_strategy" -> SimpleRsiRequirements
    [] OTHER -> build_specs_from_legacy

\* whether update() returns a value after n bars: EmaSpec, MacdSpec and
\* AtrSpec seed on the first bar, RsiSpec answers None on its first bar
ValueReady(kind, n) == IF kind = "rsi" THEN n >= 2 ELSE n >= 1

\* IndicatorEngine.update_on_close: spec.update(bar) on every spec of the
\* interval; applied[sid][i] lists the bars spec i of sid was updated with
update_on_close(applied, profs, interval, bar) ==
  [sid \in DOMAIN applied |->
     [i \in DOMAIN applied[sid] |->
        IF indicator_specs(profs[sid].type)[i].interval = interval
        THEN Append(applied[sid][i], bar)
        ELSE applied[sid][i]]]

\* res_map.get(name) on the results update_on_close returned for a strategy:
\* "absent", "null" (a result whose value is None) or "value"
ResultOf(specs, appl, interval, name) ==
  IF \A i \in DOMAIN specs : ~(specs[i].interval = interval /\ specs[i].name = name)
  THEN "absent"
  ELSE Bind(CHOOSE i \in DOMAIN specs :
              /\ specs[i].interval = interval /\ specs[i].name = name
              /\ \A j \in DOMAIN specs :
                   specs[j].interval = interval /\ specs[j].name = name => j <= i,
         LAMBDA i : IF ValueReady(specs[i].kind, Len(appl[i])) THEN "value" ELSE "null")

\* the names MarketStateManager looks up in the results of a 1h bar and
\* those it needs from the results of a 15m bar
Lookup1h == {"ema_fast", "ema_slow", "rsi"}
Lookup15m == {"ema_fast", "ema_slow"}

\* ascending sequence of a set of open_times
RECURSIVE SortedSeq(_)
SortedSeq(S) ==
  IF S = {} THEN <<>>
  ELSE Bind(CHOOSE m \in S : \A x \in S : x <= m,
         LAMBDA m : Append(SortedSeq(S \ {m}), m))

LastN(seq, n) == SubSeq(seq, Max(1, Len(seq) - n + 1), Len(seq))

\* KlineBuffer.extend / append on a deque(maxlen)
Extend(buf, bars, maxlen) == LastN(buf \o bars, maxlen)

\* SELECT * FROM klines ... ORDER BY open_time DESC LIMIT ?, reversed
load_recent_from_db(rows, limit) == LastN(SortedSeq(rows), limit)

\* GET /fapi/v1/klines with limit and endTime (<<>>: no endTime): the `limit`
\* latest klines that opened at or before endTime, oldest first.  The kline
\* that is still forming is one of them; _parse_kline stores each of them
\* with is_closed = True.
fetch_klines(now, limit, end_time) ==
  Bind(IF end_time = <<>> THEN now ELSE Min(end_time[1], now), LAMBDA hi :
    Bind(Max(1, hi - limit + 1), LAMBDA lo :
      [k \in 1 .. (hi - lo + 1) |-> lo + k - 1]))

\* the default of rest_limit
RestLimit == 1500

\* the while loop of warmup_interval (lines 147-166)
RECURSIVE WarmupLoop(_, _, _, _, _, _)
WarmupLoop(m, interval, remaining, end_time, maxlen, rest_limit) ==
  IF remaining <= 0 THEN m
  ELSE Bind(fetch_klines(m.now[interval], Min(rest_limit, remaining), end_time),
         LAMBDA data :
           IF data = <<>> THEN m
           ELSE WarmupLoop([m EXCEPT !.klines[interval] = @ \cup Range(data),
                                     !.buffers[interval] = Extend(@, data, maxlen)],
                           interval, remaining - Len(data), <<data[1] - 1>>, maxlen,
                           rest_limit))

warmup_interval(m, interval, bars_needed, rest_limit) ==
  Bind(load_recent_from_db(m.klines[interval], bars_needed), LAMBDA existing :
    WarmupLoop([m EXCEPT !.buffers[interval] = Extend(@, existing, bars_needed)],
               interval, bars_needed - Len(existing),
               IF existing # <<>> THEN <<existing[1] - 1>> ELSE <<>>, bars_needed,
               rest_limit))

RECURSIVE WarmupFrom(_, _, _, _)
WarmupFrom(m, k, bars_needed, rest_limit) ==
  IF k > Len(IntervalSeq) THEN m
  ELSE WarmupFrom(warmup_interval(m, IntervalSeq[k], bars_needed, rest_limit), k + 1,
                  bars_needed, rest_limit)

warmup_all(m, bars_needed, rest_limit) == WarmupFrom(m, 1, bars_needed, rest_limit)

\* one bar of the replay of prime_from_history
PrimeOne(m, profs, interval, bar) ==
  Bind(update_on_close(m.applied, profs, interval, bar), LAMBDA appl :
    [m EXCEPT !.applied = appl,
              !.ind_1h_map =
                 IF interval # "1h" THEN @
                 ELSE @ \cup {sid \in DOMAIN appl :
                                \A name \in Lookup1h :
                                   ResultOf(indicator_specs(profs[sid].type), appl[sid],
                                            "1h", name) = "value"}])

RECURSIVE PrimeFrom(_, _, _, _, _)
PrimeFrom(m, profs, interval, bars, k) ==
  IF k > Len(bars) THEN m
  ELSE PrimeFrom(PrimeOne(m, profs, interval, bars[k]), profs, interval, bars, k + 1)

\* MarketStateManager.prime_from_history: the 1h buffer, then the 15m buffer
prime_from_history(m, profs) ==
  Bind(PrimeFrom(m, profs, "1h", m.buffers["1h"], 1), LAMBDA v :
    PrimeFrom(v, profs, "15m", v.buffers["15m"], 1))

\* the strategies for which the 15m branch of on_kline_close builds a context
CtxBuilt(m, profs, sid) ==
  /\ \E i \in DOMAIN indicator_specs(profs[sid].type) :
        indicator_specs(profs[sid].type)[i].interval = "15m"
  /\ sid \in m.ind_1h_map
  /\ \A name \in Lookup15m :
        ResultOf(indicator_specs(profs[sid].type), m.applied[sid], "15m", name) # "absent"

\* MarketStateManager.on_kline_close.  After it has built the context of a
\* strategy the 15m branch reads `snap`, a name only the 1h branch binds
\* (line 323): the call raises.
state_on_kline_close(m, profs, ids, interval, bar) ==
  Bind([m EXCEPT !.applied = update_on_close(@, profs, interval, bar)], LAMBDA v :
    IF interval = "1h"
    THEN [m |-> [v EXCEPT !.ind_1h_map =
                    @ \cup {sid \in Range(ids) :
                              \A name \in Lookup1h :
                                 ResultOf(indicator_specs(profs[sid].type), v.applied[sid],
                                          "1h", name) # "absent"}],
          strategies |-> <<>>, raised |-> FALSE]
    ELSE Bind(SelectSeq(ids, LAMBDA sid : CtxBuilt(v, profs, sid)), LAMBDA built :
           [m |-> v, strategies |-> built, raised |-> built # <<>>]))

\* what _handle_kline did with the last x=true frame it was given: the calls
\* it made, in order
NoFrame == [interval |-> "", bar |-> 0, steps |-> <<>>]

\* BinanceWsClient before run(): the reconnect policy, the stop event, the
\* local `retries` of run() and the delay it sleeps; `fails` counts the
\* connections in a row that ended with an exception, `outcome` tells how the
\* last connection ended, `conns` counts the connections; `est` tells whether
\* the last connection was established (websockets.connect succeeded) and
\* `unest` counts the attempts in a row that were not
NoRun == [pc |-> "none", max_retries |-> 0, retries |-> 0, delay |-> 0, stop |-> FALSE,
          fails |-> 0, outcome |-> "none", conns |-> 0, est |-> FALSE, unest |-> 0]

\* ---- the context of a 15m close and the entry setup of TestStrategy
\* Values are integers: prices in units, RSI in points, the MACD histogram in
\* tenths; <<>> is None.
\* the manager before any bar: ind_1h_map[sid], last_rsi_15m[sid],
\* prev_macd_hist_15m[sid] and prev2_macd_hist_15m[sid] unset; rsi and macd
\* are the values the specs returned for the last closed 15m bars, newest last
NoCtx == [ind1 |-> <<>>, last_rsi |-> <<>>, prev_macd |-> <<>>, prev2_macd |-> <<>>,
          rsi |-> <<>>, macd |-> <<>>, bar |-> <<>>, history |-> <<>>,
          dec |-> "none", built |-> FALSE, raised |-> FALSE, n |-> 0]

\* dict.get(key, default) on an entry that is <<>> when unset
GetOr(entry, default) == IF entry = <<>> THEN default ELSE entry[1]

\* history_map of on_kline_close (lines 298-303): for each name the earlier
\* values the manager remembers, then the value of this bar
history_map(cx, rsi, macd) ==
  [rsi14_15m |-> <<GetOr(cx.last_rsi, rsi), rsi>>,
   macd_hist_15m |-> <<GetOr(cx.prev2_macd, macd), GetOr(cx.prev_macd, macd), macd>>]

\* StrategyContext.prev(name, k, default): seq[-k]
CtxPrev(seq, k, default) == IF Len(seq) < k THEN default ELSE <<seq[Len(seq) - k + 1]>>

\* the strategy parameters of the "test" profile (registry defaults)
TestParams == [trend_strength_per_mille |-> 3, rsi_long_lower |-> 50, rsi_long_upper |-> 60,
               rsi_short_upper |-> 50, rsi_short_lower |-> 40, rsi_slope_required |-> TRUE]

\* `v or d` on an Optional[float]: d when v is None or 0
PyOr(v, d) == IF v = <<>> \/ v = <<0>> THEN d ELSE v[1]

\* a record of values as a record of Optional values, none of them None
Some(rec) == [f \in DOMAIN rec |-> <<rec[f]>>]

\* allow_long / allow_short of _on_15m_close (lines 265-276) on the Optional
\* values ctx.ind returns
TrendStrongOpt(i1, params) ==
  Abs(PyOr(i1.ema20, 0) - PyOr(i1.ema60, 0)) * 1000
    >= params.trend_strength_per_mille * PyOr(i1.close, 1)
AllowLongOpt(i1, params) ==
  /\ PyOr(i1.close, 0) > PyOr(i1.ema60, 0) /\ PyOr(i1.ema20, 0) > PyOr(i1.ema60, 0)
  /\ PyOr(i1.rsi14, 0) > 50
  /\ TrendStrongOpt(i1, params)
AllowShortOpt(i1, params) ==
  /\ PyOr(i1.close, 0) < PyOr(i1.ema60, 0) /\ PyOr(i1.ema20, 0) < PyOr(i1.ema60, 0)
  /\ PyOr(i1.rsi14, 0) < 50
  /\ TrendStrongOpt(i1, params)

\* the same on values that are all known
AllowLong(ind1, params) == AllowLongOpt(Some(ind1), params)
AllowShort(ind1, params) == AllowShortOpt(Some(ind1), params)

\* rsi_ok (lines 288-290, 314-316): the band, and the slope against
\* ctx.prev("rsi14_15m", 1) when it is required and known
RsiOk(rsi, rsi_prev, lower, upper, rising, params) ==
  /\ lower <= rsi /\ rsi <= upper
  /\ (params.rsi_slope_required /\ rsi_prev # <<>>) =>
        IF rising THEN rsi > rsi_prev[1] ELSE rsi < rsi_prev[1]

\* the entry setup _on_15m_close finds in a context with no position and no
\* cooldown (lines 263-336): "long", "short" or "none".  i1 holds the 1h
\* values, b the bar with its ema20 and ema60, all Optional but the prices of
\* the bar
TestSetupOpt(i1, b, rsi, macd, history, params) ==
  Bind(<<CtxPrev(history.rsi14_15m, 1, <<>>),
         PyOr(CtxPrev(history.macd_hist_15m, 1, <<>>), 0),
         PyOr(CtxPrev(history.macd_hist_15m, 2, <<>>), 0)>>,
    LAMBDA p :
      IF /\ AllowLongOpt(i1, params)
         /\ b.low <= PyOr(b.ema20, b.low) /\ b.close > PyOr(b.ema60, b.close)
         /\ rsi # <<>>
         /\ RsiOk(rsi[1], p[1], params.rsi_long_lower, params.rsi_long_upper, TRUE, params)
         /\ p[3] < p[2] /\ p[2] < PyOr(macd, 0)
      THEN "long"
      ELSE IF /\ AllowShortOpt(i1, params)
              /\ b.high >= PyOr(b.ema20, b.high) /\ b.close < PyOr(b.ema60, b.close)
              /\ rsi # <<>>
              /\ RsiOk(rsi[1], p[1], params.rsi_short_lower, params.rsi_short_upper, FALSE,
                       params)
              /\ p[3] > p[2] /\ p[2] > PyOr(macd, 0)
      THEN "short"
      ELSE "none")

\* the same on values that are all known
TestSetup(ind1, bar, rsi, macd, history, params) ==
  TestSetupOpt(Some(ind1), [bar EXCEPT !.ema20 = <<@>>, !.ema60 = <<@>>], <<rsi>>, <<macd>>,
               history, params)

\* _on_15m_close with no position and no cooldown: once a setup holds the
\* stop is entry -/+ atr_mult * atr, a TypeError when atr is None
Test15mClose(i1, b, rsi, macd, atr, history, structure_stop, params) ==
  Bind(TestSetupOpt(i1, b, rsi, macd, history, params), LAMBDA setup :
    IF setup = "none" THEN NoDecision
    ELSE IF atr = <<>> THEN Raised
    ELSE TestEntrySignal(IF setup = "long" THEN "LONG" ELSE "SHORT", b.close, atr[1],
                         structure_stop))

\* MaCrossStrategy.on_bar_close with no position and no cooldown (lines
\* 127-155)
MaCrossOnBarClose(i1, b, atr, structure_stop) ==
  IF b.ema20 = <<>> \/ b.ema60 = <<>> \/ i1.rsi14 = <<>> THEN NoDecision
  ELSE IF b.ema20[1] > b.ema60[1] /\ i1.rsi14[1] > 50
  THEN IF atr = <<>> THEN Raised
       ELSE MaCrossEntrySignal("LONG", b.close, atr[1], structure_stop)
  ELSE IF b.ema20[1] < b.ema60[1] /\ i1.rsi14[1] < 50
  THEN IF atr = <<>> THEN Raised
       ELSE MaCrossEntrySignal("SHORT", b.close, atr[1], structure_stop)
  ELSE NoDecision

\* SimpleRsiOvertradeStrategy._check_entry (lines 69-102) on the Optional RSI
\* of the context, with rsi_low = 30 and rsi_high = 70
SimpleOnRsi(price, rsi) ==
  IF rsi = <<>> THEN NoDecision
  ELSE SimpleCheckEntry(price, [sig |-> IF rsi[1] < 30 THEN "long"
                                        ELSE IF rsi[1] > 70 THEN "short" ELSE "none",
                                dist |-> 0, exc |-> "none"])

\* on_kline_close, 1h branch: ind_1h_map[sid] = Indicators1h(...)
ctx_1h_close(cx, ind1) == [cx EXCEPT !.ind1 = <<ind1>>, !.n = @ + 1]

\* on_kline_close, 15m branch for one strategy, and on_bar_close on the
\* context it builds.  After the context is stored in `result` line 323 reads
\* `snap`, which this branch never binds: the call raises before any of
\* last_rsi_15m, prev_macd_hist_15m and prev2_macd_hist_15m is assigned.
ctx_15m_close(cx, bar, rsi, macd, params) ==
  IF cx.ind1 = <<>> THEN [cx EXCEPT !.built = FALSE, !.raised = FALSE, !.n = @ + 1]
  ELSE
    Bind(history_map(cx, rsi, macd), LAMBDA h :
      [cx EXCEPT !.rsi = LastN(Append(@, rsi), 2), !.macd = LastN(Append(@, macd), 3),
                 !.bar = <<bar>>, !.history = <<h>>,
                 !.dec = TestOnBarClose(NoPos, 0, bar.close,
                            [sig |-> TestSetup(cx.ind1[1], bar, rsi, macd, h, params),
                             dist |-> bar.dist, exc |-> "none"]).side,
                 !.built = TRUE, !.raised = TRUE, !.n = @ + 1])


\* what the last kline message did: whether it carried x = true, the
\* strategies whose on_tick it called and the positions before it
NoTick == [seen |-> FALSE, closed |-> FALSE, interval |-> "", ticked |-> {},
           before |-> <<>>]

\* ---- the klines table
\* no Kline: before the first upsert_kline
NoKline == [symbol |-> "", interval |-> "", open_time |-> 0, close |-> 0,
            source |-> "", created_at |-> 0]

\* the columns the klines table is unique on
KlinesUnique == {"symbol", "interval", "open_time"}

\* the conflict target of upsert_kline: ON CONFLICT(symbol, interval, open_time)
ConflictTargetWithSource == {"symbol", "interval", "open_time", "source"}
ConflictTarget == {"symbol", "interval", "open_time"}

\* two rows agree on a set of columns
SameOn(cols, a, b) == \A c \in cols : a[c] = b[c]

\* Database.upsert_kline: INSERT ... ON CONFLICT(target) DO UPDATE SET every
\* other column to the excluded value.  A row that collides with the insert on
\* the table's unique columns but not on the conflict target fails the
\* statement (a constraint error) and the table is as before.
upsert_kline(tbl, k) ==
  IF \E r \in DOMAIN tbl : SameOn(ConflictTarget, tbl[r], k)
  THEN [r \in DOMAIN tbl |-> IF SameOn(ConflictTarget, tbl[r], k) THEN k ELSE tbl[r]]
  ELSE IF \E r \in DOMAIN tbl : SameOn(KlinesUnique, tbl[r], k)
       THEN tbl
       ELSE Append(tbl, k)

\* str.lower and str.upper on the symbols of the configuration
Lower(sym) == IF sym = "BTCUSDT" THEN "btcusdt" ELSE sym
Upper(sym) == IF sym = "btcusdt" THEN "BTCUSDT" ELSE sym

\* BinanceConfig.symbol
Symbol == "BTCUSDT"

\* the Kline of _parse_kline (source "rest") and of _handle_kline (source "ws")
RestKline(interval, open_time, close, now) ==
  [symbol |-> Symbol, interval |-> interval, open_time |-> open_time,
   close |-> close, source |-> "rest", created_at |-> now]
WsKline(interval, open_time, close, now) ==
  [symbol |-> Upper(Lower(Symbol)), interval |-> interval, open_time |-> open_time,
   close |-> close, source |-> "ws", created_at |-> now]


\* A message of the socket: whether it is JSON, and of the kline in it the
\* interval "i", the open time "t", the other numbers (T, o, h, l, c, v, n,
\* as one) and the flag "x", each well formed ("ok", "true", "false"), absent
\* ("missing") or, for a number, a text that is no number ("text")
NoMessage == [json |-> TRUE, i |-> "", t |-> "", c |-> "", x |-> ""]

\* the tasks RuntimeEngine.start creates
Tasks == {"ws", "funding"}

\* RuntimeEngine before start(): no task, no connection.  `phase` is the
\* position of start()/stop(), `conn` the aiosqlite connection of the engine's
\* Database, pc[t] the await a task stands at ("wait": a sleep, a fetch or a
\* read of the socket; "db": inside a call of Database), `cancelled` the
\* cancellation requested of a task, `ops` its finished Database calls,
\* `late` whether a Database call began after stop() had returned
NoTasks == [phase |-> "none", conn |-> "none", pc |-> [t \in Tasks |-> "none"],
            cancelled |-> [t \in Tasks |-> FALSE], ops |-> [t \in Tasks |-> 0],
            late |-> FALSE]

\* the market-data side before the first start of the engine
MarketDataInit ==
  [phase |-> "down", now |-> [iv \in IntervalSet |-> 2],
   klines |-> [iv \in IntervalSet |-> {}], buffers |-> [iv \in IntervalSet |-> <<>>],
   applied |-> <<>>, ind_1h_map |-> {}, h1 |-> {}, due |-> {}, served |-> <<>>,
   frame |-> NoFrame, ws |-> NoRun, sd |-> NoTasks,
   current |-> [iv \in IntervalSet |-> 0], msg |-> NoMessage, nmsg |-> 0,
   tbl |-> <<>>, up |-> NoKline, nup |-> 0, cx |-> NoCtx, tk |-> NoTick,
   nl |-> [strategy |-> "", method |-> "", nulls |-> {}, dec |-> NoDecision, n |-> 0],
   sg |-> [signal |-> NoDecision, strategy |-> "", atr |-> 0, pct |-> 0, n |-> 0],
   n |-> 0]

\* ========================================================= indicator specs
\* The values of the specs.  A float is kept in thousandths, division
\* truncates; Optional[float] is <<>> (None) or <<v>>.
Milli(x) == x * 1000

\* the lengths a spec is constructed with (the defaults of the profiles)
Lengths(spec) ==
  CASE spec.kind = "macd" -> <<12, 26, 9>>
    [] spec.kind = "ema" ->
         IF spec.name \in {"ema60_15m", "ema60_1h", "ema_slow"} THEN <<60>> ELSE <<20>>
    [] OTHER -> <<14>>

\* the state a spec is constructed with
SpecInit(kind) ==
  CASE kind = "ema" -> [ema |-> <<>>, history |-> <<>>]
    [] kind = "rsi" -> [avg_gain |-> <<>>, avg_loss |-> <<>>, last_close |-> <<>>,
                        history |-> <<>>]
    [] kind = "macd" -> [ema_fast |-> <<>>, ema_slow |-> <<>>, signal |-> <<>>,
                         history |-> <<>>]
    [] OTHER -> [atr |-> <<>>, last_close |-> <<>>, history |-> <<>>]

IndicatorResult(name, value, history, extras) ==
  [name |-> name, value |-> value, history |-> history, extras |-> extras]

\* history.append(v); pop(0) when longer than history_size (3)
Publish(history, v) == LastN(Append(history, v), 3)

\* price * k + prev * (1 - k) with k = 2 / (length + 1); price when prev is None
EmaStep(prev, price, length) ==
  IF prev = <<>> THEN price
  ELSE (2 * price + (length - 1) * prev[1]) \div (length + 1)

EmaUpdate(spec, st, bar) ==
  Bind(EmaStep(st.ema, Milli(bar.close), Lengths(spec)[1]), LAMBDA e :
    [st |-> [ema |-> <<e>>, history |-> Publish(st.history, e)],
     res |-> IndicatorResult(spec.name, <<e>>, Publish(st.history, e), <<>>)])

\* (avg * (length - 1) + x) / length; x when avg is None
WilderStep(avg, x, length) ==
  IF avg = <<>> THEN x ELSE (avg[1] * (length - 1) + x) \div length

\* 100 - 100 / (1 + rs) with rs = avg_gain / avg_loss; None when avg_loss = 0
RsiOf(avg_gain, avg_loss) ==
  IF avg_loss = 0 THEN <<>>
  ELSE <<Milli(100) - (Milli(100) * 1000) \div (1000 + (avg_gain * 1000) \div avg_loss)>>

RsiUpdate(spec, st, bar) ==
  IF st.last_close = <<>>
  THEN [st |-> [st EXCEPT !.last_close = <<Milli(bar.close)>>],
        res |-> IndicatorResult(spec.name, <<>>, st.history, <<>>)]
  ELSE
    Bind(<<WilderStep(IF st.avg_loss = <<>> THEN <<>> ELSE st.avg_gain,
                      Max(Milli(bar.close) - st.last_close[1], 0), Lengths(spec)[1]),
           WilderStep(IF st.avg_gain = <<>> THEN <<>> ELSE st.avg_loss,
                      Max(st.last_close[1] - Milli(bar.close), 0), Lengths(spec)[1])>>,
      LAMBDA avg :
        Bind(RsiOf(avg[1], avg[2]), LAMBDA rsi :
          Bind(IF rsi = <<>> THEN st.history ELSE Publish(st.history, rsi[1]),
            LAMBDA h :
              [st |-> [avg_gain |-> <<avg[1]>>, avg_loss |-> <<avg[2]>>,
                       last_close |-> <<Milli(bar.close)>>, history |-> h],
               res |-> IndicatorResult(spec.name, rsi, h, <<>>)])))

MacdUpdate(spec, st, bar) ==
  Bind(<<EmaStep(st.ema_fast, Milli(bar.close), Lengths(spec)[1]),
         EmaStep(st.ema_slow, Milli(bar.close), Lengths(spec)[2])>>,
    LAMBDA e :
      Bind(EmaStep(st.signal, e[1] - e[2], Lengths(spec)[3]), LAMBDA sig :
        Bind(Publish(st.history, e[1] - e[2] - sig), LAMBDA h :
          [st |-> [ema_fast |-> <<e[1]>>, ema_slow |-> <<e[2]>>, signal |-> <<sig>>,
                   history |-> h],
           res |-> IndicatorResult(spec.name, <<e[1] - e[2] - sig>>, h,
                                   <<e[1] - e[2], sig>>)])))

\* max(high - low, |high - last_close|, |low - last_close|)
TrueRange(last_close, bar) ==
  IF last_close = <<>> THEN Milli(bar.high - bar.low)
  ELSE Max(Milli(bar.high - bar.low),
           Max(Abs(Milli(bar.high) - last_close[1]), Abs(Milli(bar.low) - last_close[1])))

AtrUpdate(spec, st, bar) ==
  Bind(WilderStep(st.atr, TrueRange(st.last_close, bar), Lengths(spec)[1]), LAMBDA a :
    [st |-> [atr |-> <<a>>, last_close |-> <<Milli(bar.close)>>, history |-> <<a>>],
     res |-> IndicatorResult(spec.name, <<a>>, <<a>>, <<>>)])

\* spec.update(bar)
spec_update(spec, st, bar) ==
  CASE spec.kind = "ema" -> EmaUpdate(spec, st, bar)
    [] spec.kind = "rsi" -> RsiUpdate(spec, st, bar)
    [] spec.kind = "macd" -> MacdUpdate(spec, st, bar)
    [] OTHER -> AtrUpdate(spec, st, bar)

\* The attributes of a spec object: update, and the properties name, interval,
\* warmup_bars and history_size.  None of the four classes has another method.
SpecMethods == {"update"}

\* spec.preview(bar): the attribute lookup raises AttributeError
spec_preview(spec, st, bar) ==
  IF "preview" \in SpecMethods
  THEN [st |-> st, res |-> spec_update(spec, st, bar).res, raised |-> FALSE]
  ELSE [st |-> st, res |-> IndicatorResult(spec.name, <<>>, <<>>, <<>>), raised |-> TRUE]

\* the indices of the specs of one interval in a spec list
OnInterval(specs, interval) == {i \in DOMAIN specs : specs[i].interval = interval}

\* the strategies whose spec lists update_on_close walks: self._specs.items()
EngineSidsFirst(sts) == {AllSids[1]} \cap DOMAIN sts
EngineSids(sts) == DOMAIN sts

\* IndicatorEngine.update_on_close on the spec states `sts` of the strategies:
\* the new states and out = {sid: {name: result}}
engine_update_on_close(sts, profs, interval, bar) ==
  [sts |-> [sid \in DOMAIN sts |->
              [i \in DOMAIN sts[sid] |->
                 IF /\ sid \in EngineSids(sts)
                    /\ i \in OnInterval(indicator_specs(profs[sid].type), interval)
                 THEN spec_update(indicator_specs(profs[sid].type)[i], sts[sid][i], bar).st
                 ELSE sts[sid][i]]],
   out |-> [sid \in {x \in EngineSids(sts) :
                       OnInterval(indicator_specs(profs[x].type), interval) # {}} |->
              {spec_update(indicator_specs(profs[sid].type)[i], sts[sid][i], bar).res :
                 i \in OnInterval(indicator_specs(profs[sid].type), interval)}],
   raised |-> FALSE]

\* IndicatorEngine.preview: spec.preview(bar) on the first spec of the
\* interval ends the call
engine_preview(sts, profs, interval, bar) ==
  IF \E sid \in DOMAIN sts :
       \E i \in OnInterval(indicator_specs(profs[sid].type), interval) :
          spec_preview(indicator_specs(profs[sid].type)[i], sts[sid][i], bar).raised
  THEN [sts |-> sts, out |-> <<>>, raised |-> TRUE]
  ELSE [sts |-> sts,
        out |-> [sid \in {x \in DOMAIN sts :
                            OnInterval(indicator_specs(profs[x].type), interval) # {}} |->
                   {spec_preview(indicator_specs(profs[sid].type)[i], sts[sid][i], bar).res :
                      i \in OnInterval(indicator_specs(profs[sid].type), interval)}],
        raised |-> FALSE]

\* the engine as it is constructed, before any bar
IndicatorEngineInit(ids, profs) ==
  [sts |-> [sid \in ids |->
              [i \in DOMAIN indicator_specs(profs[sid].type) |->
                 SpecInit(indicator_specs(profs[sid].type)[i].kind)]],
   op |-> "init", interval |-> "", bar |-> [close |-> 0, high |-> 0, low |-> 0],
   pre |-> <<>>, out |-> <<>>, raised |-> FALSE, n |-> 0]

\* ================================================================ the engine
VARIABLES sids, profiles, positions, cooldowns, accounts, dbPositions, trades, ledger,
          snapshots, lastPrice, conds, sinceStop, openK, settled, last,
          nBars, nTicks, nRestarts, nFaults, fund, ing, md, ie

vars == <<sids, profiles, positions, cooldowns, accounts, dbPositions, trades, ledger,
          snapshots, lastPrice, conds, sinceStop, openK, settled, last,
          nBars, nTicks, nRestarts, nFaults, fund, ing, md, ie>>

\* what the handlers of the runner leave alone: the funding task, the place
\* of the ingestion task inside a handler, the market-data side and the
\* indicator engine
taskVars == <<fund, ing, md, ie>>

SidSet == Range(sids)

NoFault == [kind |-> "none", sid |-> "", where |-> "none", at |-> 0]

\* the writes of a handler at which a failure or a cancellation is injected
FailPoints == 1 .. 4

\* one fault per handler run: a strategy callback raises, a DB write fails (or
\* the task is cancelled there), or the fundingRate fetch fails
Faults ==
  {NoFault, [kind |-> "fetch", sid |-> "", where |-> "none", at |-> 0]}
  \cup {[kind |-> "exc", sid |-> s, where |-> x, at |-> 0] :
          s \in SidSet, x \in {"describe", "decide"}}
  \cup {[kind |-> "db", sid |-> "", where |-> "none", at |-> n] : n \in FailPoints}

\* outcome of the fundingRate fetch of a forced apply_funding
ForcedFetch(fault) ==
  [ok |-> fault.kind # "fetch", near |-> FALSE, time |-> fund.latest, rate |-> 1]

SigChoices(handler) ==
  {f \in [SidSet -> {"none", "long", "short", "exit", "stop", "tp1", "tp2"}] :
     \A s \in SidSet : f[s] \in SigsFor(handler, profiles[s].type, positions[s])}

InputsFor(sigs, dist, fault) ==
  [s \in SidSet |-> [sig |-> sigs[s], dist |-> dist,
                     exc |-> IF fault.kind = "exc" /\ fault.sid = s
                             THEN fault.where ELSE "none"]]

Begin(fault) ==
  [sids |-> sids, profiles |-> profiles, res |-> sids,
   positions |-> positions, cooldowns |-> cooldowns, accounts |-> accounts,
   dbPositions |-> dbPositions, trades |-> trades, ledger |-> ledger,
   snapshots |-> snapshots, lastPrice |-> lastPrice, conds |-> conds,
   sinceStop |-> sinceStop, openK |-> openK, settled |-> settled,
   fr |-> ForcedFetch(fault),
   aborted |-> FALSE, nwrites |-> 0, failAt |-> fault.at, fetched |-> FALSE,
   statusRuns |-> 0, snapshotRuns |-> 0, calls |-> <<>>,
   processed |-> {}, raised |-> {}, calledOn |-> <<>>, ticked |-> {}]

CommitState(w) ==
  /\ positions' = w.positions
  /\ cooldowns' = w.cooldowns
  /\ accounts' = w.accounts
  /\ dbPositions' = w.dbPositions
  /\ trades' = w.trades
  /\ ledger' = w.ledger
  /\ snapshots' = w.snapshots
  /\ lastPrice' = w.lastPrice
  /\ conds' = w.conds
  /\ sinceStop' = w.sinceStop
  /\ openK' = w.openK
  /\ settled' = w.settled
  /\ UNCHANGED <<sids, profiles>>

Commit(handler, w) ==
  /\ CommitState(w)
  /\ last' = [handler |-> handler, calls |-> w.calls, processed |-> w.processed,
              raised |-> w.raised, statusRuns |-> w.statusRuns,
              snapshotRuns |-> w.snapshotRuns, fetched |-> w.fetched,
              aborted |-> w.aborted]

\* the fault chosen for a handler run is one that the run met
Met(fault, w) ==
  CASE fault.kind = "db" -> w.aborted /\ w.nwrites >= w.failAt
    [] fault.kind = "exc" -> fault.sid \in w.raised
    [] fault.kind = "fetch" -> w.fetched
    [] OTHER -> TRUE

FaultBudget(fault) ==
  /\ fault # NoFault => nFaults < MaxFaults
  /\ nFaults' = IF fault # NoFault THEN nFaults + 1 ELSE nFaults

FundIdle == [pc |-> "sleep", i |-> 0, time |-> 0, pos |-> NoPos, live |-> FALSE,
             cycles |-> 0, skips |-> 0, latest |-> 1, now |-> 0]

InitWith(ids, profs) ==
  /\ sids = ids
  /\ profiles \in [Range(ids) -> profs]
  /\ settled = <<>>
  /\ fund = FundIdle
  /\ ing = [pc |-> "idle", i |-> 0, now |-> 0]
  /\ md = MarketDataInit
  /\ ie = IndicatorEngineInit(Range(ids), profiles)
  /\ positions = [s \in Range(ids) |-> NoPos]
  /\ cooldowns = [s \in Range(ids) |-> 0]
  /\ accounts = [s \in Range(ids) |-> AccountState(Tenths(InitialCapital))]
  /\ dbPositions = <<>>
  /\ trades = <<>>
  /\ ledger = <<>>
  /\ snapshots = <<>>
  /\ lastPrice = 0
  /\ conds = [s \in Range(ids) |-> "none"]
  /\ sinceStop = [s \in Range(ids) |-> -1]
  /\ openK = [s \in Range(ids) |-> -1]
  /\ last = [handler |-> "start", calls |-> <<>>, processed |-> {}, raised |-> {},
             statusRuns |-> 0, snapshotRuns |-> 0, fetched |-> FALSE, aborted |-> FALSE]
  /\ nBars = 0 /\ nTicks = 0 /\ nRestarts = 0 /\ nFaults = 0

\* a closed 15m bar reaches StrategyRunner.on_kline_close
BarCloseAt(prices, dists, faults, budget) ==
  /\ nBars + nTicks + nRestarts < budget
  /\ \E price \in prices, sigs \in SigChoices("close"), dist \in dists,
        fault \in faults :
       \E w \in {runner_on_kline_close(Begin(fault), price, InputsFor(sigs, dist, fault))} :
          /\ Met(fault, w)
          /\ FaultBudget(fault)
          /\ Commit("close", w)
  /\ nBars' = nBars + 1
  /\ UNCHANGED <<nTicks, nRestarts, taskVars>>

BarCloseOf(faults, budget) == BarCloseAt(Prices, StopDistances, faults, budget)

\* a 15m frame reaches StrategyRunner.on_kline_update
TickAt(prices, dists, faults, budget) ==
  /\ nBars + nTicks + nRestarts < budget
  /\ \E price \in prices, sigs \in SigChoices("update"), dist \in dists,
        fault \in faults :
       \E w \in {runner_on_kline_update(Begin(fault), price, InputsFor(sigs, dist, fault))} :
          /\ Met(fault, w)
          /\ FaultBudget(fault)
          /\ Commit("update", w)
  /\ nTicks' = nTicks + 1
  /\ UNCHANGED <<nBars, nRestarts, taskVars>>

TickOf(faults, budget) == TickAt(Prices, StopDistances, faults, budget)

\* what a start of the process rebuilds: _init_strategies,
\* load_account_state, load_open_positions
Reload ==
  /\ accounts' = load_account_state(snapshots, SidSet)
  /\ positions' = load_open_positions(dbPositions, SidSet)
  /\ cooldowns' = [s \in SidSet |-> 0]
  /\ lastPrice' = 0
  /\ conds' = [s \in SidSet |-> "none"]
  /\ sinceStop' = [s \in SidSet |-> -1]
  /\ openK' = [s \in SidSet |-> -1]
  /\ last' = [handler |-> "restart", calls |-> <<>>, processed |-> {}, raised |-> {},
              statusRuns |-> 0, snapshotRuns |-> 0, fetched |-> FALSE, aborted |-> FALSE]
  /\ UNCHANGED <<sids, profiles, dbPositions, trades, ledger, snapshots, settled>>

Restart ==
  /\ nRestarts < MaxRestarts
  /\ nBars + nTicks + nRestarts < MaxEvents
  /\ Reload
  /\ nRestarts' = nRestarts + 1
  /\ UNCHANGED <<nBars, nTicks, nFaults, taskVars>>

\* ---- the engine without faults, one configured strategy
Init == InitWith(SubSeq(AllSids, 1, 1), Profiles)

BarClose == BarCloseOf({NoFault}, MaxEvents)

Tick == nTicks < MaxTicks /\ TickOf({NoFault}, MaxEvents)

Next == BarClose \/ Tick \/ Restart

Spec == Init /\ [][Next]_vars

\* ---- the engine with the strategy "default" (the id of a StrategyConfig
\* that names none) next to another one
SharedEvents == 2

SharedSids == <<"default", "s2">>

InitShared == InitWith(SharedSids, {pr \in Profiles : pr.type = "test" /\ ~pr.realtime_exit})

SharedBarClose == BarCloseOf({NoFault}, SharedEvents)

SharedTick == TickOf({NoFault}, SharedEvents)

NextShared == SharedBarClose \/ SharedTick \/ Restart

SpecShared == InitShared /\ [][NextShared]_vars

\* ---- the engine on a market that moves 5% and more between two bars, with
\* stops as far from the entry
LossEvents == 4

LossPrices == {180, 200}

LossDistances == {10}

LossBarClose == BarCloseAt(LossPrices, LossDistances, {NoFault}, LossEvents)

LossTick == TickAt(LossPrices, LossDistances, {NoFault}, LossEvents)

NextLoss == LossBarClose \/ LossTick

SpecLoss == Init /\ [][NextLoss]_vars

\* ---- the engine on a market that goes from 100 to 105 and 110, with stops
\* 5 away from the entry
WalkEvents == 4

WalkPrices == {100, 105, 110}

WalkDistances == {5}

WalkBarClose == BarCloseAt(WalkPrices, WalkDistances, {NoFault}, WalkEvents)

WalkTick == TickAt(WalkPrices, WalkDistances, {NoFault}, WalkEvents)

NextWalk == WalkBarClose \/ WalkTick

SpecWalk == Init /\ [][NextWalk]_vars

\* ---- the engine with faults, every configured strategy
InitFault == InitWith(AllSids, Profiles)

FaultyBarClose == BarCloseOf(Faults, FaultEvents)

FaultyTick == TickOf(Faults, FaultEvents)

NextFault == FaultyBarClose \/ FaultyTick

SpecFault == InitFault /\ [][NextFault]_vars

\* ---- the ingestion task beside the funding task, step by step
\* The funding task stands at one of its awaits: "sleep" (asyncio.sleep),
\* "select" (the SELECT on the ledger for strategy i), "insert" (insert_ledger
\* and the alert for strategy i), "snap" (status_store.update or the insert of
\* the snapshot before row i).  The ingestion task stands between two handlers
\* ("idle") or inside snapshot_equity at the end of on_kline_close ("snap").
InitFund ==
  InitWith(SubSeq(AllSids, 1, 1),
           {pr \in Profiles : pr.type = "simple_rsi_overtrade_strategy"})

counters == <<nBars, nTicks, nRestarts, nFaults>>

\* apply_funding from the head of its loop at strategy i to its next await
FundAdvance(w, f, i) ==
  IF \E j \in i .. Len(w.sids) : w.positions[w.sids[j]] # NoPos
  THEN Bind(CHOOSE j \in i .. Len(w.sids) :
              /\ w.positions[w.sids[j]] # NoPos
              /\ \A k \in i .. (j - 1) : w.positions[w.sids[k]] = NoPos,
         LAMBDA j : <<w, [f EXCEPT !.pc = "select", !.i = j, !.live = TRUE,
                                   !.pos = w.positions[w.sids[j]]]>>)
  ELSE <<update_status(w, w.lastPrice),
         [f EXCEPT !.pc = "snap", !.i = 1, !.pos = NoPos, !.live = FALSE,
                   !.now = now_ms(w)]>>

\* The PositionState object the funding task holds across its SELECT is the
\* one a handler changes in place (TP1) or drops (full close).
Realias(f, w) ==
  IF f.pc = "select" /\ f.live
  THEN IF w.positions[w.sids[f.i]] = NoPos THEN [f EXCEPT !.live = FALSE]
       ELSE [f EXCEPT !.pos = w.positions[w.sids[f.i]]]
  ELSE f

\* funding_loop wakes, apply_funding fetches the latest fundingRate entry
FundFetched ==
  /\ fund.pc = "sleep" /\ fund.cycles < MaxCycles
  /\ \E near \in BOOLEAN, t \in {x \in FundingTimes : x >= fund.latest} :
       IF ~near
       THEN /\ fund' = [fund EXCEPT !.cycles = @ + 1, !.latest = t]
            /\ UNCHANGED <<sids, profiles, positions, cooldowns, accounts, dbPositions,
                           trades, ledger, snapshots, lastPrice, conds, sinceStop,
                           openK, settled>>
       ELSE \E p \in {FundAdvance(Begin(NoFault),
                                  [fund EXCEPT !.time = t, !.latest = t], 1)} :
              CommitState(p[1]) /\ fund' = p[2]
  /\ UNCHANGED <<last, ing, md, ie, counters>>

\* the SELECT returned: skip the strategy or change its balance and insert
FundSelected ==
  /\ fund.pc = "select"
  /\ IF FundingSkips(HasFundingEntry(ledger, sids[fund.i], fund.time), FALSE)
     THEN \E p \in {FundAdvance(Begin(NoFault), [fund EXCEPT !.skips = @ + 1],
                                fund.i + 1)} :
            CommitState(p[1]) /\ fund' = p[2]
     ELSE /\ CommitState(FundSettle(Begin(NoFault), sids[fund.i], fund.pos,
                                    [time |-> fund.time, rate |-> 1], 0))
          /\ fund' = [fund EXCEPT !.pc = "insert", !.live = FALSE]
  /\ UNCHANGED <<last, ing, md, ie, counters>>

\* insert_ledger and the alert returned
FundInserted ==
  /\ fund.pc = "insert"
  /\ \E p \in {FundAdvance(Begin(NoFault), fund, fund.i + 1)} :
       CommitState(p[1]) /\ fund' = p[2]
  /\ UNCHANGED <<last, ing, md, ie, counters>>

\* snapshot_equity of the funding task writes the row of strategy i
FundSnap ==
  /\ fund.pc = "snap"
  /\ snapshots' = Append(snapshots, SnapshotRow(Begin(NoFault), sids[fund.i], fund.now))
  /\ fund' = IF fund.i = Len(sids)
             THEN [fund EXCEPT !.pc = "sleep", !.i = 0, !.cycles = @ + 1, !.now = 0]
             ELSE [fund EXCEPT !.i = @ + 1]
  /\ UNCHANGED <<sids, profiles, positions, cooldowns, accounts, dbPositions, trades,
                 ledger, lastPrice, conds, sinceStop, openK, settled, last, ing, md,
                 ie, counters>>

\* on_kline_close up to the await that ends update_status
IngestClose ==
  /\ ing.pc = "idle" /\ nBars + nTicks < FundEvents
  /\ \E price \in Prices, sigs \in SigChoices("close"), dist \in StopDistances :
       \E w \in {RunnerCloseHead(Begin(NoFault), price, InputsFor(sigs, dist, NoFault))} :
          /\ Commit("close", w)
          /\ fund' = Realias(fund, w)
          /\ ing' = [pc |-> "snap", i |-> 1, now |-> now_ms(w)]
  /\ nBars' = nBars + 1
  /\ UNCHANGED <<nTicks, nRestarts, nFaults, md, ie>>

\* snapshot_equity of on_kline_close writes the row of strategy i
IngestSnap ==
  /\ ing.pc = "snap"
  /\ snapshots' = Append(snapshots, SnapshotRow(Begin(NoFault), sids[ing.i], ing.now))
  /\ ing' = IF ing.i = Len(sids) THEN [pc |-> "idle", i |-> 0, now |-> 0]
            ELSE [ing EXCEPT !.i = @ + 1]
  /\ UNCHANGED <<sids, profiles, positions, cooldowns, accounts, dbPositions, trades,
                 ledger, lastPrice, conds, sinceStop, openK, settled, last, fund, md,
                 ie, counters>>

\* on_kline_update
IngestUpdate ==
  /\ ing.pc = "idle" /\ nBars + nTicks < FundEvents
  /\ \E price \in Prices, sigs \in SigChoices("update"), dist \in StopDistances :
       \E w \in {runner_on_kline_update(Begin(NoFault), price,
                                        InputsFor(sigs, dist, NoFault))} :
          /\ Commit("update", w)
          /\ fund' = Realias(fund, w)
  /\ nTicks' = nTicks + 1
  /\ UNCHANGED <<ing, md, ie, nBars, nRestarts, nFaults>>

NextFund ==
  \/ FundFetched \/ FundSelected \/ FundInserted \/ FundSnap
  \/ IngestClose \/ IngestSnap \/ IngestUpdate

SpecFund == InitFund /\ [][NextFund]_vars

\* ---- the market-data side: exchange, REST warmup, priming, WebSocket
InitFeed == InitWith(SubSeq(AllSids, 1, 1), Profiles)

engineVars == <<sids, profiles, positions, cooldowns, accounts, dbPositions, trades,
                ledger, snapshots, lastPrice, conds, sinceStop, openK, settled, last>>

\* the strategies no handler of the feed has a decision input for
Quiet == [s \in SidSet |-> [sig |-> "none", dist |-> 0, exc |-> "none"]]

\* RuntimeEngine.start: the state is loaded, warmup_all fills fresh buffers,
\* a fresh engine is primed from them, then the WebSocket client runs
EngineStartWith(bars_needed, rest_limit) ==
  /\ md.phase = "down" /\ md.n < MaxFeedEvents
  /\ Reload
  /\ \E m \in {prime_from_history(
                 warmup_all([md EXCEPT !.buffers = [iv \in IntervalSet |-> <<>>],
                                       !.applied = [sid \in SidSet |->
                                          [i \in DOMAIN indicator_specs(profiles[sid].type)
                                             |-> <<>>]],
                                       !.ind_1h_map = {}, !.h1 = {}],
                            bars_needed, rest_limit),
                 profiles)} :
       md' = [m EXCEPT !.phase = "live", !.n = @ + 1]
  /\ UNCHANGED <<counters, fund, ing, ie>>

EngineStart == EngineStartWith(WarmupBars, RestLimit)

\* RuntimeEngine.stop, or the process dies
EngineStop ==
  /\ md.phase # "down" /\ md.n < MaxFeedEvents
  /\ md' = [md EXCEPT !.phase = "down", !.n = @ + 1]
  /\ UNCHANGED <<engineVars, counters, fund, ing, ie>>

\* _connect_once ends with the connection; run() sleeps before it reconnects
WsDisconnected ==
  /\ md.phase = "live" /\ md.n < MaxFeedEvents
  /\ md' = [md EXCEPT !.phase = "gap", !.n = @ + 1]
  /\ UNCHANGED <<engineVars, counters, fund, ing, ie>>

WsReconnected ==
  /\ md.phase = "gap" /\ md.n < MaxFeedEvents
  /\ md' = [md EXCEPT !.phase = "live", !.n = @ + 1]
  /\ UNCHANGED <<engineVars, counters, fund, ing, ie>>

\* a bar closes on the exchange while no connection is open
ClosedUnseen ==
  /\ md.phase # "live" /\ md.n < MaxFeedEvents
  /\ \E interval \in IntervalSet :
       md' = [md EXCEPT !.now[interval] = @ + 1, !.n = @ + 1]
  /\ UNCHANGED <<engineVars, counters, fund, ing, ie>>

\* the callbacks of _handle_kline on a closed frame: on_kline_update, then,
\* after the kline is stored, MarketStateManager.on_kline_close (outcome s) and
\* StrategyRunner.on_kline_close on its result
HandleClosed(w, interval, price, s) ==
  Bind(IF interval = "15m" THEN runner_on_kline_update(w, price, Quiet)
       ELSE [w EXCEPT !.lastPrice = price],
    LAMBDA u :
      IF s.raised THEN u
      ELSE runner_on_kline_close([u EXCEPT !.res = s.strategies], price, Quiet))

\* BinanceWsClient._handle_kline on the frame that closes the forming bar
WsKlineClosed ==
  /\ md.phase = "live" /\ md.n < MaxFeedEvents
  /\ \E interval \in IntervalSet, price \in Prices :
       \E bar \in {md.now[interval]} :
       \E s \in {state_on_kline_close(
                   [md EXCEPT !.klines[interval] = @ \cup {bar},
                              !.buffers[interval] = Extend(@, <<bar>>, WarmupBars)],
                   profiles, sids, interval, bar)} :
       \E w \in {HandleClosed(Begin(NoFault), interval, price, s)} :
          /\ Commit(IF s.raised THEN "close_raised" ELSE "close", w)
          /\ md' = [s.m EXCEPT
                      !.now[interval] = @ + 1,
                      !.h1 = IF interval # "1h" THEN @
                             ELSE @ \cup {sid \in SidSet :
                                    \E i \in DOMAIN indicator_specs(profiles[sid].type) :
                                       indicator_specs(profiles[sid].type)[i].interval = "1h"},
                      !.due = IF interval # "15m" THEN @
                              ELSE @ \cup {<<sid, bar>> : sid \in md.h1},
                      !.served = IF interval # "15m" \/ s.raised THEN @
                                 ELSE @ \o [k \in DOMAIN w.calledOn |->
                                              <<w.calledOn[k], bar>>],
                      !.n = @ + 1]
  /\ nBars' = nBars + 1
  /\ UNCHANGED <<nTicks, nRestarts, nFaults, fund, ing, ie>>

NextFeed ==
  \/ EngineStart \/ EngineStop \/ WsDisconnected \/ WsReconnected
  \/ ClosedUnseen \/ WsKlineClosed

SpecFeed == InitFeed /\ [][NextFeed]_vars

\* ---- the market-data side under a profile whose warmup is longer than one
\* REST page (kline_cache.warmup_extra_bars above rest_limit), scaled down:
\* WarmupBars bars are needed and a page holds PageLimit of them
PageLimit == 2

PagedStart == EngineStartWith(WarmupBars, PageLimit)

NextPaged ==
  \/ PagedStart \/ EngineStop \/ WsDisconnected \/ WsReconnected
  \/ ClosedUnseen \/ WsKlineClosed

SpecPaged == InitFeed /\ [][NextPaged]_vars

\* ---- the WebSocket handler with callbacks that may fail
\* the on_kline_update callback of a frame
FrameUpdate(w, interval, price, inps) ==
  IF interval = "15m" THEN runner_on_kline_update(w, price, inps)
  ELSE [w EXCEPT !.lastPrice = price]

\* BinanceWsClient._handle_kline on a frame with x = true: an exception of the
\* awaited on_kline_update leaves the coroutine at line 89 and _connect_once
\* logs it (line 127)
ws_handle_kline(m, w, profs, ids, interval, bar, price, inps) ==
  Bind(FrameUpdate(w, interval, price, inps), LAMBDA u :
    IF u.aborted
    THEN [w |-> u, m |-> m, steps |-> <<"on_kline_update">>, raised |-> TRUE]
    ELSE Bind(state_on_kline_close(
                [m EXCEPT !.klines[interval] = @ \cup {bar},
                          !.buffers[interval] = Extend(@, <<bar>>, WarmupBars)],
                profs, ids, interval, bar),
           LAMBDA s :
             [w |-> IF s.raised THEN u
                    ELSE runner_on_kline_close([u EXCEPT !.res = s.strategies],
                                               price, Quiet),
              m |-> s.m,
              steps |-> <<"on_kline_update", "upsert_kline", "append", "on_kline_close">>,
              raised |-> s.raised]))

\* starts, stops and frames before the last frame of a run
WsEvents == 4

\* the failures a frame may meet inside on_kline_update
FrameFaults == {f \in Faults : f.kind \in {"none", "db"}}

\* a frame that closes the forming bar arrives; a write of on_kline_update
\* may fail
WsFrame ==
  /\ md.phase = "live" /\ md.n < WsEvents
  /\ \E interval \in IntervalSet, price \in Prices, sigs \in SigChoices("update"),
        dist \in StopDistances, fault \in FrameFaults :
       \E bar \in {md.now[interval]} :
       \E r \in {ws_handle_kline(md, Begin(fault), profiles, sids, interval, bar, price,
                                 InputsFor(sigs, dist, fault))} :
          /\ fault # NoFault => r.steps = <<"on_kline_update">>
          /\ FaultBudget(fault)
          /\ Commit(IF Len(r.steps) = 1 THEN "update_raised"
                    ELSE IF r.raised THEN "close_raised" ELSE "close", r.w)
          /\ md' = [r.m EXCEPT !.now[interval] = @ + 1,
                               !.frame = [interval |-> interval, bar |-> bar,
                                          steps |-> r.steps],
                               !.n = @ + 1]
  /\ nBars' = nBars + 1
  /\ UNCHANGED <<nTicks, nRestarts, fund, ing, ie>>

\* a registered strategy whose profile sets realtime_entry and realtime_exit
WsProfiles == {[type |-> "plugin", realtime_entry |-> TRUE, realtime_exit |-> TRUE]}

InitWs == InitWith(SubSeq(AllSids, 1, 1), WsProfiles)

NextWs == EngineStart \/ EngineStop \/ WsFrame

SpecWs == InitWs /\ [][NextWs]_vars

\* ---- BinanceWsClient.run: connections, backoff and stop
\* WsReconnectPolicy defaults
BaseDelayMs == 500
MaxDelayMs == 10000

\* settings.binance.ws_reconnect.max_retries (0: no limit)
MaxRetriesChoices == {0, 1, 3}

\* connections of one run()
MaxConnects == 7

\* run() from the end of its try statement to its next await (lines 141-153)
AfterConnect(ws) ==
  IF ws.stop THEN [ws EXCEPT !.pc = "ended"]
  ELSE IF ws.max_retries # 0 /\ ws.retries >= ws.max_retries
  THEN [ws EXCEPT !.pc = "ended"]
  ELSE [ws EXCEPT !.pc = "sleep",
                  !.delay = Min(MaxDelayMs, BaseDelayMs * 2 ^ ws.retries),
                  !.retries = @ + 1]

\* the head of the while loop (line 132)
LoopHead(ws) ==
  IF ws.stop THEN [ws EXCEPT !.pc = "ended"] ELSE [ws EXCEPT !.pc = "connect"]

RunStep(ws) ==
  /\ md' = [md EXCEPT !.ws = ws]
  /\ UNCHANGED <<engineVars, counters, fund, ing, ie>>

\* RuntimeEngine.start creates the client and the task of run()
WsRun ==
  /\ md.ws.pc = "none"
  /\ \E r \in MaxRetriesChoices :
       RunStep(LoopHead([NoRun EXCEPT !.max_retries = r]))

\* _connect_once raised: the connection could not be made (OSError,
\* TimeoutError), or it was made and then lost (ConnectionClosedError)
WsConnectRaised ==
  /\ md.ws.pc = "connect" /\ md.ws.conns < MaxConnects
  /\ \E established \in BOOLEAN :
       RunStep(AfterConnect([md.ws EXCEPT !.fails = @ + 1, !.outcome = "raised",
                                          !.conns = @ + 1, !.est = established,
                                          !.unest = IF established THEN 0 ELSE @ + 1]))

\* _connect_once returned: the server closed the connection in the regular
\* way and the iteration over the messages ended, or a message arrived after
\* stop()
WsConnectReturned ==
  /\ md.ws.pc = "connect" /\ md.ws.conns < MaxConnects
  /\ RunStep(AfterConnect([md.ws EXCEPT !.retries = 0, !.fails = 0,
                                       !.outcome = "returned", !.conns = @ + 1,
                                       !.est = TRUE, !.unest = 0]))

\* asyncio.sleep(delay / 1000.0) is over
WsSleepDone ==
  /\ md.ws.pc = "sleep"
  /\ RunStep(LoopHead(md.ws))

\* stop()
WsStop ==
  /\ md.ws.pc \notin {"none", "ended"} /\ ~md.ws.stop
  /\ RunStep([md.ws EXCEPT !.stop = TRUE])

NextRun == WsRun \/ WsConnectRaised \/ WsConnectReturned \/ WsSleepDone \/ WsStop

SpecRun == InitFeed /\ [][NextRun]_vars

\* ---- the message loop on well formed and malformed messages
MaxMessages == 3

FieldStates == {"ok", "missing", "text"}

Messages ==
  [json : BOOLEAN, i : IntervalSet \cup {"missing"}, t : FieldStates, c : FieldStates,
   x : {"true", "false", "missing"}]

\* int(None) and float(None) raise TypeError, int("abc") and float("abc")
\* ValueError
ConversionRaises(field) == field # "ok"

\* bool(k.get("x")): an absent flag is None, which is False
IsClosed(x) == x = "true"

\* one turn of the message loop of _connect_once (lines 117-128) with
\* _handle_kline (lines 66-110); the kline of a message is the forming bar
connect_once_message(m, w, profs, ids, msg, price, inps) ==
  IF ~msg.json \/ msg.i \notin IntervalSet
     \/ ConversionRaises(msg.t) \/ ConversionRaises(msg.c)
  THEN [w |-> w, m |-> m, steps |-> <<>>, raised |-> FALSE, closed |-> FALSE]
  ELSE Bind([m EXCEPT !.current[msg.i] = m.now[msg.i]], LAMBDA mc :
         IF IsClosed(msg.x)
         THEN Bind(ws_handle_kline(mc, w, profs, ids, msg.i, m.now[msg.i], price, inps),
                LAMBDA r : [w |-> r.w, m |-> r.m, steps |-> r.steps,
                            raised |-> r.raised, closed |-> TRUE])
         ELSE [w |-> FrameUpdate(w, msg.i, price, inps), m |-> mc,
               steps |-> <<"on_kline_update">>, raised |-> FALSE, closed |-> FALSE])

\* a message arrives on the open connection
WsMessage ==
  /\ md.phase = "live" /\ md.nmsg < MaxMessages
  /\ \E msg \in Messages, price \in {CHOOSE p \in Prices : TRUE} :
       \E r \in {connect_once_message(md, Begin(NoFault), profiles, sids, msg, price,
                                      Quiet)} :
          /\ IF r.steps = <<>> THEN UNCHANGED engineVars
             ELSE Commit(IF r.raised THEN "close_raised"
                         ELSE IF r.closed THEN "close" ELSE "update", r.w)
          /\ md' = [r.m EXCEPT !.now = IF r.closed THEN [@ EXCEPT ![msg.i] = @ + 1] ELSE @,
                               !.msg = msg, !.nmsg = @ + 1]
  /\ UNCHANGED <<counters, fund, ing, ie>>

NextParse == EngineStart \/ EngineStop \/ WsMessage

SpecParse == InitWs /\ [][NextParse]_vars

\* ---- well formed kline messages, open and closed, with strategies that
\* answer on_tick
TickFrames == 3
TickProfiles ==
  {[type |-> "plugin", realtime_entry |-> e, realtime_exit |-> x] : e, x \in BOOLEAN}

InitTick == InitWith(SubSeq(AllSids, 1, 1), TickProfiles)

WsKlineMessage ==
  /\ md.phase = "live" /\ md.n < TickFrames
  /\ \E interval \in IntervalSet, closed \in BOOLEAN, price \in Prices,
        sigs \in SigChoices("update"), dist \in StopDistances :
       \E r \in {connect_once_message(md, Begin(NoFault), profiles, sids,
                     [json |-> TRUE, i |-> interval, t |-> "ok", c |-> "ok",
                      x |-> IF closed THEN "true" ELSE "false"],
                     price, InputsFor(sigs, dist, NoFault))} :
          /\ Commit(IF r.raised THEN "close_raised"
                    ELSE IF r.closed THEN "close" ELSE "update", r.w)
          /\ md' = [r.m EXCEPT !.now = IF r.closed THEN [@ EXCEPT ![interval] = @ + 1] ELSE @,
                               !.tk = [seen |-> TRUE, closed |-> r.closed,
                                       interval |-> interval, ticked |-> r.w.ticked,
                                       before |-> positions],
                               !.n = @ + 1]
  /\ UNCHANGED <<counters, fund, ing, ie>>

NextTick == EngineStart \/ EngineStop \/ WsKlineMessage

SpecTick == InitTick /\ [][NextTick]_vars

\* ---- the built-in strategies on contexts with indicators that are None
MaxNullCalls == 2

\* contexts on which each strategy finds the setup of a side: the 1h values,
\* the bar with its 15m EMAs, the 15m RSI, MACD histogram and ATR, and the
\* earlier values of the histories (the value of the bar not among them)
FullContexts ==
  {[i1 |-> [close |-> 200, ema20 |-> 199, ema60 |-> 198, rsi14 |-> 55],
    b |-> [low |-> 197, high |-> 201, close |-> 200, ema20 |-> 198, ema60 |-> 196],
    rsi |-> 25, rsi_test |-> 55, macd |-> 3, atr |-> 2,
    history |-> [rsi14_15m |-> <<52>>, macd_hist_15m |-> <<1, 2>>]],
   [i1 |-> [close |-> 196, ema20 |-> 197, ema60 |-> 198, rsi14 |-> 45],
    b |-> [low |-> 193, high |-> 199, close |-> 194, ema20 |-> 195, ema60 |-> 196],
    rsi |-> 75, rsi_test |-> 45, macd |-> 1, atr |-> 2,
    history |-> [rsi14_15m |-> <<48>>, macd_hist_15m |-> <<3, 2>>]]}

\* the indicators each strategy reads in on_bar_close
ReadBy(strategy) ==
  CASE strategy = "test" ->
         {"ema20_15m", "ema60_15m", "rsi14_15m", "macd_hist_15m", "atr14_15m",
          "close_1h", "ema20_1h", "ema60_1h", "rsi14_1h"}
    [] strategy = "ma_cross" -> {"ema20_15m", "ema60_15m", "rsi14_1h", "atr14_15m"}
    [] OTHER -> {"rsi14_15m"}

\* ctx.ind(name) when the indicators in `nulls` are None
IndOr(nulls, name, v) == IF name \in nulls THEN <<>> ELSE <<v>>

I1With(c, nulls) ==
  [close |-> IndOr(nulls, "close_1h", c.i1.close), ema20 |-> IndOr(nulls, "ema20_1h", c.i1.ema20),
   ema60 |-> IndOr(nulls, "ema60_1h", c.i1.ema60), rsi14 |-> IndOr(nulls, "rsi14_1h", c.i1.rsi14)]

BarWith(c, nulls) ==
  [c.b EXCEPT !.ema20 = IndOr(nulls, "ema20_15m", @), !.ema60 = IndOr(nulls, "ema60_15m", @)]

NullCall(strategy, method, nulls, dec) ==
  /\ md.nl.n < MaxNullCalls
  /\ md' = [md EXCEPT !.nl = [strategy |-> strategy, method |-> method, nulls |-> nulls,
                              dec |-> dec, n |-> md.nl.n + 1]]
  /\ UNCHANGED <<engineVars, counters, fund, ing, ie>>

\* at most one of the indicators a strategy reads is None
NullSets(strategy) == {{}} \cup {{name} : name \in ReadBy(strategy)}

TestNullClose ==
  \E c \in FullContexts, nulls \in NullSets("test") :
     NullCall("test", "on_bar_close", nulls,
              Test15mClose(I1With(c, nulls), BarWith(c, nulls),
                           IndOr(nulls, "rsi14_15m", c.rsi_test),
                           IndOr(nulls, "macd_hist_15m", c.macd),
                           IndOr(nulls, "atr14_15m", c.atr), c.history, <<>>, TestParams))

MaCrossNullClose ==
  \E c \in FullContexts, nulls \in NullSets("ma_cross") :
     NullCall("ma_cross", "on_bar_close", nulls,
              MaCrossOnBarClose(I1With(c, nulls), BarWith(c, nulls),
                                IndOr(nulls, "atr14_15m", c.atr), <<>>))

SimpleNullClose ==
  \E c \in FullContexts, nulls \in NullSets("simple_rsi_overtrade_strategy") :
     NullCall("simple_rsi_overtrade_strategy", "on_bar_close", nulls,
              SimpleOnRsi(c.b.close, IndOr(nulls, "rsi14_15m", c.rsi)))

\* on_tick of the three strategies with no position: no indicator is read
NullTick ==
  \E strategy \in {"test", "simple_rsi_overtrade_strategy"}, price \in Prices :
     NullCall(strategy, "on_tick", ReadBy(strategy),
              on_tick(strategy, NoPos, price, [sig |-> "none", dist |-> 0, exc |-> "none"]))

NextNull == TestNullClose \/ MaCrossNullClose \/ SimpleNullClose \/ NullTick

SpecNull == InitFeed /\ [][NextNull]_vars

\* ---- the entry signals of the built-in strategies
MaxSignals == 2
Sides == {"LONG", "SHORT"}
AtrValues == {0, 2, 4}
StopLossPcts == {0, 1, 2}
StructureStops(entry) == {<<>>, <<entry - 5>>, <<entry + 5>>}

Signal(strategy, signal, atr, pct) ==
  /\ md.sg.n < MaxSignals
  /\ md' = [md EXCEPT !.sg = [signal |-> signal, strategy |-> strategy, atr |-> atr,
                              pct |-> pct, n |-> md.sg.n + 1]]
  /\ UNCHANGED <<engineVars, counters, fund, ing, ie>>

TestSignal ==
  \E side \in Sides, entry \in Prices, atr \in AtrValues :
    \E structure_stop \in StructureStops(entry) :
       Signal("test", TestEntrySignal(side, entry, atr, structure_stop), atr, 0)

MaCrossSignal ==
  \E side \in Sides, entry \in Prices, atr \in AtrValues :
    \E structure_stop \in StructureStops(entry) :
       Signal("ma_cross", MaCrossEntrySignal(side, entry, atr, structure_stop), atr, 0)

SimpleRsiSignal ==
  \E sig \in {"long", "short"}, price \in Prices, pct \in StopLossPcts :
     Signal("simple_rsi_overtrade_strategy",
            SimpleCheckEntryWith(price, [sig |-> sig, dist |-> 0, exc |-> "none"], pct),
            0, pct)

NextSig == TestSignal \/ MaCrossSignal \/ SimpleRsiSignal

SpecSig == InitFeed /\ [][NextSig]_vars

\* ---- RuntimeEngine.stop beside the two tasks
\* Database calls of one task
MaxDbOps == 2

\* the tasks stop() cancels (lines 221-224)
StopCancelsWsOnly == {"ws"}
StopCancels == Tasks

SdStep(sd) ==
  /\ md' = [md EXCEPT !.sd = sd]
  /\ UNCHANGED <<engineVars, counters, fund, ing, ie>>

\* start(): Database.connect, then, after warmup, the two tasks
SdStart ==
  /\ md.sd.phase = "none"
  /\ SdStep([NoTasks EXCEPT !.phase = "running", !.conn = "open",
                            !.pc = [t \in Tasks |-> "wait"]])

\* A task is resumed at a sleep, a fetch or a read of the socket.  With a
\* cancellation requested CancelledError is thrown at the await: no handler
\* of the two tasks catches it but the one of the funding loop, which leaves
\* the loop.  Else the task goes on to a call of Database, which begins with
\* connect(): a connection that is closed is opened again.
TaskCallsDb(t) ==
  /\ md.sd.pc[t] = "wait"
  /\ IF md.sd.cancelled[t] THEN SdStep([md.sd EXCEPT !.pc[t] = "done"])
     ELSE /\ md.sd.ops[t] < MaxDbOps
          /\ SdStep([md.sd EXCEPT !.pc[t] = "db", !.conn = "open",
                                  !.late = @ \/ md.sd.phase = "stopped"])

\* A task is resumed inside a call of Database: the statement and its commit
\* are done, or CancelledError is thrown
TaskDbDone(t) ==
  /\ md.sd.pc[t] = "db"
  /\ IF md.sd.cancelled[t] THEN SdStep([md.sd EXCEPT !.pc[t] = "done"])
     ELSE SdStep([md.sd EXCEPT !.pc[t] = "wait", !.ops[t] = @ + 1])

WsTaskCallsDb == TaskCallsDb("ws")
WsTaskDbDone == TaskDbDone("ws")
FundingTaskCallsDb == TaskCallsDb("funding")
FundingTaskDbDone == TaskDbDone("funding")

\* stop() up to `await self._db.close()`
SdStop ==
  /\ md.sd.phase = "running"
  /\ SdStep([md.sd EXCEPT !.phase = "closing",
                          !.cancelled = [t \in Tasks |-> t \in StopCancels]])

\* the connection is closed, Database.close sets _conn to None, stop() returns
SdClosed ==
  /\ md.sd.phase = "closing"
  /\ SdStep([md.sd EXCEPT !.phase = "stopped", !.conn = "closed"])

NextSd ==
  \/ SdStart \/ WsTaskCallsDb \/ WsTaskDbDone \/ FundingTaskCallsDb
  \/ FundingTaskDbDone \/ SdStop \/ SdClosed

SpecSd == InitFeed /\ [][NextSd]_vars

\* ---- the klines table under upserts from the warmup and from the WebSocket
MaxUpserts == 3
OpenTimes == {0, 1}
ClosePrices == {197, 200}

Upsert(k) ==
  /\ md.nup < MaxUpserts
  /\ md' = [md EXCEPT !.tbl = upsert_kline(md.tbl, k), !.up = k, !.nup = @ + 1]
  /\ UNCHANGED <<engineVars, counters, fund, ing, ie>>

WarmupUpsert ==
  \E interval \in IntervalSet, t \in OpenTimes, c \in ClosePrices :
     Upsert(RestKline(interval, t, c, md.nup + 1))

WsUpsert ==
  \E interval \in IntervalSet, t \in OpenTimes, c \in ClosePrices :
     Upsert(WsKline(interval, t, c, md.nup + 1))

NextKlines == WarmupUpsert \/ WsUpsert

SpecKlines == InitFeed /\ [][NextKlines]_vars

\* ---- contexts of 15m closes given to TestStrategy
MaxCtxBars == 4
Ind1Choices ==
  {[close |-> 200, ema20 |-> 199, ema60 |-> 198, rsi14 |-> 55],
   [close |-> 196, ema20 |-> 197, ema60 |-> 198, rsi14 |-> 45]}
CtxBars ==
  {[low |-> 197, high |-> 201, close |-> 200, ema20 |-> 198, ema60 |-> 196, dist |-> 3],
   [low |-> 199, high |-> 201, close |-> 200, ema20 |-> 198, ema60 |-> 196, dist |-> 3],
   [low |-> 193, high |-> 199, close |-> 194, ema20 |-> 198, ema60 |-> 196, dist |-> 3]}
RsiValues == {45, 52, 55}
MacdValues == {1, 2, 3}

Ctx1hClose ==
  /\ md.cx.n < MaxCtxBars
  /\ \E ind1 \in Ind1Choices : md' = [md EXCEPT !.cx = ctx_1h_close(@, ind1)]
  /\ UNCHANGED <<engineVars, counters, fund, ing, ie>>

Ctx15mClose ==
  /\ md.cx.n < MaxCtxBars
  /\ \E bar \in CtxBars, rsi \in RsiValues, macd \in MacdValues :
       md' = [md EXCEPT !.cx = ctx_15m_close(@, bar, rsi, macd, TestParams)]
  /\ UNCHANGED <<engineVars, counters, fund, ing, ie>>

NextCtx == Ctx1hClose \/ Ctx15mClose

SpecCtx == InitFeed /\ [][NextCtx]_vars

\* ---- run() with its frames: stop() while connected, connecting or asleep
\* frames one run() handles before stop()
StopFrames == 3

\* the test of the stop event at the head of the message loop (line 118)
BreaksOnStopNever(stop) == FALSE
BreaksOnStop(stop) == stop

\* run() is started by RuntimeEngine.start, after warmup and priming
WsRunLive == md.phase = "live" /\ WsRun

\* a message arrives on the open connection (lines 117-128): after stop() the
\* loop is left and _connect_once returns, else the frame, one that closes
\* the forming bar, goes to _handle_kline
WsRunFrame ==
  /\ md.ws.pc = "connect"
  /\ IF BreaksOnStop(md.ws.stop)
     THEN RunStep(AfterConnect([md.ws EXCEPT !.retries = 0, !.fails = 0,
                                             !.outcome = "break", !.conns = @ + 1,
                                             !.est = TRUE, !.unest = 0]))
     ELSE /\ md.n < StopFrames
          /\ \E interval \in IntervalSet, price \in Prices :
               \E bar \in {md.now[interval]} :
               \E r \in {ws_handle_kline(md, Begin(NoFault), profiles, sids, interval,
                                         bar, price, Quiet)} :
                  /\ Commit(IF r.raised THEN "close_raised" ELSE "close", r.w)
                  /\ md' = [r.m EXCEPT !.now[interval] = @ + 1,
                                       !.frame = [interval |-> interval, bar |-> bar,
                                                  steps |-> r.steps],
                                       !.n = @ + 1]
          /\ nBars' = nBars + 1
          /\ UNCHANGED <<nTicks, nRestarts, nFaults, fund, ing, ie>>

NextStop ==
  \/ EngineStart \/ WsRunLive \/ WsConnectRaised \/ WsConnectReturned
  \/ WsSleepDone \/ WsStop \/ WsRunFrame

\* The event loop ends asyncio.sleep after the delay.  Nothing in the client
\* makes a message arrive or ends an open connection: stop() only sets the
\* event, which run() reads at its next step.
SpecStop == InitWs /\ [][NextStop]_vars /\ WF_vars(WsSleepDone)

\* ---- the indicator engine alone: bars applied and previewed
MaxIndEvents == 3

\* the bars a frame can carry: close, and high and low around it
Bars == {[close |-> c, high |-> c + d, low |-> c - 3] : c \in Prices, d \in {0, 3}}

InitInd == InitWith(SubSeq(AllSids, 1, 1), Profiles)

IndCall(op, interval, bar, r) ==
  ie' = [sts |-> r.sts, op |-> op, interval |-> interval, bar |-> bar,
         pre |-> ie.sts, out |-> r.out, raised |-> r.raised, n |-> ie.n + 1]

IndUpdateOnClose ==
  /\ ie.n < MaxIndEvents
  /\ \E interval \in IntervalSet, bar \in Bars :
       IndCall("update_on_close", interval, bar,
               engine_update_on_close(ie.sts, profiles, interval, bar))
  /\ UNCHANGED <<engineVars, counters, fund, ing, md>>

IndPreview ==
  /\ ie.n < MaxIndEvents
  /\ \E interval \in IntervalSet, bar \in Bars :
       IndCall("preview", interval, bar,
               engine_preview(ie.sts, profiles, interval, bar))
  /\ UNCHANGED <<engineVars, counters, fund, ing, md>>

NextInd == IndUpdateOnClose \/ IndPreview

SpecInd == InitInd /\ [][NextInd]_vars

\* ---- the indicator engine with the spec lists of two strategies
InitInd2 == InitWith(AllSids, {p \in Profiles : p.realtime_exit})

SpecInd2 == InitInd2 /\ [][NextInd]_vars

\* ================================================================ properties
ExitTradesOf(pid, reason) ==
  {t \in DOMAIN trades : /\ trades[t].position_id = pid
                          /\ trades[t].trade_type = "EXIT"
                          /\ trades[t].reason = reason}

\* C1: there is at most one OPEN position row per strategy, and a call of
\* open_position made while the strategy holds a position writes no trade, no
\* ledger entry and no position row and leaves the balance as it was.
C1_OneOpenPosition ==
  /\ \A s \in SidSet : Cardinality(OpenRowIds(dbPositions, s)) <= 1
  /\ \A i \in DOMAIN last.calls :
        LET c == last.calls[i]
        IN (c.op = "open" /\ c.pre # NoPos) =>
             /\ c.t1 = c.t0 /\ c.l1 = c.l0 /\ c.rowsSame
             /\ c.bal1 = c.bal0 /\ c.post = c.pre

\* open_position was called for a strategy that holds a position
C1_Witness ==
  \E i \in DOMAIN last.calls :
    /\ last.calls[i].op = "open" /\ last.calls[i].pre # NoPos
    /\ OpenRowIds(dbPositions, last.calls[i].sid) # {}

\* C2: a position is halved by TP1 at most once, restarts included, and from
\* its TP1 on its stop price is its entry price.
C2_Tp1Once ==
  \A i \in DOMAIN dbPositions :
    LET r == dbPositions[i]
        tp1s == ExitTradesOf(r.position_id, "tp1")
    IN /\ Cardinality(tp1s) <= 1
       /\ (tp1s # {} /\ r.status = "OPEN") =>
            /\ r.stop_price = r.entry_price
            /\ positions[r.strategy] # NoPos
            /\ positions[r.strategy].stop_price = r.entry_price

\* C5 (as amended): a close_by_action call with TP2 on a position whose
\* tp1_hit is false and whose tp1_price differs from tp2_price records an
\* EXIT trade at tp1_price for half of the quantity, then an EXIT trade for
\* the rest, and leaves the position CLOSED.
C5_Tp2BooksTp1First ==
  \A i \in DOMAIN last.calls :
    LET c == last.calls[i]
    IN (/\ c.op = "close" /\ c.action = "TP2" /\ c.pre # NoPos
        /\ ~c.pre.tp1_hit /\ c.pre.tp1_price # c.pre.tp2_price) =>
         /\ c.t1 = c.t0 + 2
         /\ trades[c.t0 + 1].trade_type = "EXIT"
         /\ trades[c.t0 + 1].price = c.pre.tp1_price
         /\ trades[c.t0 + 1].qty = HalfQty(c.pre.qty)
         /\ trades[c.t0 + 2].trade_type = "EXIT"
         /\ trades[c.t0 + 2].reason = "tp2"
         /\ trades[c.t0 + 2].qty = c.pre.qty - HalfQty(c.pre.qty)
         /\ c.post = NoPos
         /\ dbPositions[trades[c.t0 + 2].position_id].status = "CLOSED"

C5_Witness ==
  \E i \in DOMAIN last.calls :
    LET c == last.calls[i]
    IN /\ c.op = "close" /\ c.action = "TP2" /\ c.pre # NoPos
       /\ ~c.pre.tp1_hit /\ c.pre.tp1_price # c.pre.tp2_price
       /\ c.t1 = c.t0 + 2 /\ c.post = NoPos

\* C5 as stated: every close_by_action call with TP2 on a position whose
\* tp1_hit is false records two EXIT trades, the first at tp1_price.
C5_AlwaysTwoExits ==
  \A i \in DOMAIN last.calls :
    LET c == last.calls[i]
    IN (c.op = "close" /\ c.action = "TP2" /\ c.pre # NoPos /\ ~c.pre.tp1_hit) =>
         /\ c.t1 = c.t0 + 2
         /\ trades[c.t0 + 1].price = c.pre.tp1_price
         /\ trades[c.t0 + 1].qty = HalfQty(c.pre.qty)

\* C6: a built-in strategy opens no position on any of the CooldownAfterStop
\* closed bars that follow a STOP of its position.
C6_NoEntryInCooldown ==
  \A s \in SidSet :
    profiles[s].type # "plugin" => ~(openK[s] >= 1 /\ openK[s] <= CooldownAfterStop)

\* C9: when a callback of one strategy raised during a handler, the handler
\* still went through every configured strategy and then ran update_status
\* (and, on a bar close, snapshot_equity).
C9_OthersStillServed ==
  last.raised # {} =>
    /\ last.processed = SidSet
    /\ last.statusRuns >= 1
    /\ last.handler = "close" => last.snapshotRuns >= 1

\* C10: the rows of each logical event are all in the database or none is: a
\* position row has its ENTRY trade, a trade has its position row and its fee
\* ledger entry, a trade that closes the whole position has the row CLOSED,
\* and a CLOSED row has its realized_pnl ledger entry.
C10_EventRowsTogether ==
  /\ \A i \in DOMAIN dbPositions :
        /\ \E t \in DOMAIN trades : /\ trades[t].position_id = i
                                     /\ trades[t].trade_type = "ENTRY"
        /\ dbPositions[i].status = "CLOSED" =>
             \E l \in DOMAIN ledger :
               /\ ledger[l].type = "realized_pnl"
               /\ ledger[l].ref \in DOMAIN trades
               /\ trades[ledger[l].ref].position_id = i
  /\ \A t \in DOMAIN trades :
        /\ trades[t].position_id \in DOMAIN dbPositions
        /\ \E l \in DOMAIN ledger : ledger[l].type = "fee" /\ ledger[l].ref = t
        /\ (trades[t].trade_type = "EXIT" /\ trades[t].reason # "tp1") =>
             dbPositions[trades[t].position_id].status = "CLOSED"

\* the strategy types the registry ships
BuiltIn == {"test", "simple_rsi_overtrade_strategy"}

\* C7: for every closed 15m bar the WebSocket delivers after a 1h close has
\* updated the 1h indicators of a built-in strategy, that strategy gets
\* exactly one on_bar_close call with the context of that bar.
C7_OneCallPerClosedBar ==
  \A p \in md.due :
    profiles[p[1]].type \in BuiltIn =>
      Cardinality({k \in DOMAIN md.served : md.served[k] = p}) = 1

\* C8: while the engine is connected, every indicator spec has been updated
\* with each closed bar of its interval at most once since the engine
\* started, and with every bar that has closed since the oldest bar it was
\* updated with.
C8_EachBarAppliedOnce ==
  md.phase = "live" =>
    \A sid \in SidSet : \A i \in DOMAIN md.applied[sid] :
      /\ \A j, k \in DOMAIN md.applied[sid][i] :
            md.applied[sid][i][j] = md.applied[sid][i][k] => j = k
      /\ \A b \in 1 .. (md.now[indicator_specs(profiles[sid].type)[i].interval] - 1) :
            (\E j \in DOMAIN md.applied[sid][i] : md.applied[sid][i][j] <= b)
               => \E j \in DOMAIN md.applied[sid][i] : md.applied[sid][i][j] = b

\* the rows of the equity_snapshots table of one strategy, in the order written
SnapshotsOf(sid) == SelectSeq(snapshots, LAMBDA r : r.strategy = sid)

C12_PreviewIsUpdate ==
  ie.op = "preview" =>
    /\ ~ie.raised
    /\ ie.out = engine_update_on_close(ie.pre, profiles, ie.interval, ie.bar).out
    /\ ie.sts = ie.pre

\* C13: every position open_position creates has qty > 0, whatever the
\* balance of the account, a balance at or below zero included.
C13_QtyPositive ==
  \A i \in DOMAIN trades : trades[i].trade_type = "ENTRY" => trades[i].qty > 0

\* C14: a full close (STOP, TP2, CLOSE_ALL) whose fundingRate fetch succeeded
\* settles funding on the position it closes: among the ledger entries of
\* the close is a funding entry of the strategy, with the sign of the side.
C14_CloseSettlesFunding ==
  last.fetched =>
    \A k \in DOMAIN last.calls :
      LET c == last.calls[k]
      IN (c.op = "close" /\ c.ok /\ c.pre # NoPos /\ c.post = NoPos) =>
           \E j \in (c.l0 + 1) .. c.l1 :
              /\ ledger[j].type = "funding" /\ ledger[j].strategy = c.sid
              /\ (c.pre.side = "LONG") = (ledger[j].amount > 0)

\* C15: from balance 1000 (fee rate 0.0004, leverage 20, notional cap 20000)
\* a LONG opened at 100 has qty 200 and leaves balance 992; TP1 at 105 then
\* closes qty 100 and leaves balance 1487.8, the position OPEN with qty 100,
\* stop_price 100 and tp1_hit; TP2 at 110 then closes qty 100 and leaves
\* balance 2483.4 and the position CLOSED.
C15_WorkedExample ==
  \A sid \in SidSet :
    (/\ Len(trades) >= 1
     /\ trades[1].trade_type = "ENTRY" /\ trades[1].side = "BUY" /\ trades[1].price = 100)
    =>
    /\ trades[1].qty = 200
    /\ Len(trades) = 1 => accounts[sid].balance = 9920
    /\ (Len(trades) >= 2 /\ trades[2].reason = "tp1" /\ trades[2].price = 105) =>
         /\ trades[2].qty = 100
         /\ Len(trades) = 2 =>
              /\ accounts[sid].balance = 14878
              /\ positions[sid] # NoPos
              /\ positions[sid].qty = 100 /\ positions[sid].stop_price = 100
              /\ positions[sid].tp1_hit
              /\ dbPositions[1].status = "OPEN" /\ dbPositions[1].qty = 100
         /\ (Len(trades) >= 3 /\ trades[3].reason = "tp2" /\ trades[3].price = 110) =>
              /\ trades[3].qty = 100
              /\ Len(trades) = 3 =>
                   /\ accounts[sid].balance = 24834
                   /\ positions[sid] = NoPos
                   /\ dbPositions[1].status = "CLOSED"

\* the three steps of the example were taken
C15_Witness ==
  /\ Len(trades) = 3
  /\ trades[1].trade_type = "ENTRY" /\ trades[1].side = "BUY" /\ trades[1].price = 100
  /\ trades[2].reason = "tp1" /\ trades[2].price = 105
  /\ trades[3].reason = "tp2" /\ trades[3].price = 110
  /\ \E sid \in SidSet : accounts[sid].balance = 24834

\* C16: once warmup has run, and after every later WebSocket close, the
\* buffer of each interval lists its bars in strictly increasing open_time.
C16_BufferIncreasing ==
  md.phase # "down" =>
    \A interval \in IntervalSet :
      \A j, k \in DOMAIN md.buffers[interval] :
        j < k => md.buffers[interval][j] < md.buffers[interval][k]

\* C17: every bar in a KlineBuffer or in the klines table was closed when it
\* was received: no stored or buffered bar of an interval is the bar of that
\* interval that is still forming on the exchange.
C17_OnlyClosedStored ==
  \A interval \in IntervalSet :
    /\ \A bar \in md.klines[interval] : bar < md.now[interval]
    /\ \A k \in DOMAIN md.buffers[interval] :
         md.buffers[interval][k] < md.now[interval]

\* C18: account balances, positions and cooldown counters are written only on
\* the bar-ingestion task: a step that is not a handler of the ingestion task
\* (it leaves the position of that task and its bar and tick counts alone,
\* so it is a step of the funding task) changes none of them.
C18_OnlyIngestionWrites ==
  [][(ing' = ing /\ nBars' = nBars /\ nTicks' = nTicks) =>
       /\ \A sid \in DOMAIN accounts : accounts'[sid].balance = accounts[sid].balance
       /\ positions' = positions
       /\ cooldowns' = cooldowns]_vars

\* C19: for every frame with x = true that _handle_kline was given, it called
\* on_kline_update first, then stored the bar, appended it to the buffer of
\* its interval and called on_kline_close, each once, whatever on_kline_update
\* did; the bar is then in the klines table and is the newest of the buffer.
C19_ClosedFrameHandled ==
  md.frame # NoFrame =>
    /\ md.frame.steps = <<"on_kline_update", "upsert_kline", "append", "on_kline_close">>
    /\ md.frame.bar \in md.klines[md.frame.interval]
    /\ md.buffers[md.frame.interval] # <<>>
    /\ md.buffers[md.frame.interval][Len(md.buffers[md.frame.interval])] = md.frame.bar

\* C20: when run() sleeps after a connection that failed or was lost, the
\* k-th in a row counted from 0, the delay is min(max_delay_ms, base_delay_ms
\* * 2^k); with max_retries = 0 run() has ended only if stop() was called.
C20_Backoff ==
  /\ (md.ws.pc = "sleep" /\ md.ws.outcome = "raised") =>
        md.ws.delay = Min(MaxDelayMs, BaseDelayMs * 2 ^ (md.ws.fails - 1))
  /\ (md.ws.pc = "ended" /\ md.ws.max_retries = 0) => md.ws.stop

C22_StopClosesLast ==
  /\ md.sd.phase \in {"closing", "stopped"} =>
        \A t \in Tasks : md.sd.cancelled[t] \/ md.sd.pc[t] = "done"
  /\ md.sd.phase = "stopped" => md.sd.conn = "closed" /\ ~md.sd.late

\* stop() has returned, both tasks had used the connection and have ended by
\* their cancellation
C22_Witness ==
  /\ md.sd.phase = "stopped"
  /\ \A t \in Tasks : md.sd.pc[t] = "done" /\ md.sd.ops[t] > 0

\* a message that does not parse: no JSON, or a kline with a field that is
\* missing or is no number
Unparsable(msg) ==
  \/ ~msg.json \/ msg.i = "missing" \/ msg.x = "missing"
  \/ msg.t # "ok" \/ msg.c # "ok"

\* C23: a message that does not parse changes no state (the current-bar map,
\* the buffers, the klines table, and no callback runs), and a well formed
\* message is processed whatever came before it on the connection.
C23_BadFrameDropped ==
  [][md'.nmsg = md.nmsg + 1 =>
       IF Unparsable(md'.msg)
       THEN /\ md'.current = md.current
            /\ md'.buffers = md.buffers
            /\ md'.klines = md.klines
            /\ last' = last
            /\ lastPrice' = lastPrice
       ELSE /\ md'.current[md'.msg.i] = md.now[md'.msg.i]
            /\ last'.handler \in {"update", "close", "close_raised"}]_vars

\* the close_by_action calls of the last handler that ask TP1 of a position
\* whose tp1_hit is already true
Tp1AgainCalls ==
  {k \in DOMAIN last.calls :
     /\ last.calls[k].op = "close" /\ last.calls[k].action = "TP1"
     /\ last.calls[k].pre # NoPos /\ last.calls[k].pre.tp1_hit}

\* C24: close_by_action with TP1 on a position whose tp1_hit is already true
\* changes nothing: balance, qty, stop_price, cooldown, the position row, the
\* trades and the ledger are as before the call.
C24_Tp1AgainIsNoop ==
  \A k \in Tp1AgainCalls :
    LET c == last.calls[k]
    IN /\ c.ok /\ c.post = c.pre
       /\ c.bal1 = c.bal0 /\ c.cd1 = c.cd0
       /\ c.rowsSame /\ c.t1 = c.t0 /\ c.l1 = c.l0

C24_Witness ==
  \E k \in Tp1AgainCalls :
    /\ last.calls[k].pre.stop_price = last.calls[k].pre.entry_price
    /\ last.calls[k].pre.qty > 0

\* the close_by_action calls of the last handler that found a position
CloseCalls ==
  {k \in DOMAIN last.calls : last.calls[k].op = "close" /\ last.calls[k].pre # NoPos}

\* C25: close_by_action leaves the cooldown counter at cooldown_after_stop
\* when the action is STOP and as it was when the action is TP1, TP2 or
\* CLOSE_ALL; the counter is never negative.
C25_CooldownOnlyOnStop ==
  /\ \A k \in CloseCalls :
        LET c == last.calls[k]
        IN IF c.action = "STOP" THEN c.cd1 = CooldownAfterStop ELSE c.cd1 = c.cd0
  /\ \A sid \in SidSet : cooldowns[sid] >= 0

C25_Witness ==
  /\ \E k \in CloseCalls :
        /\ last.calls[k].action = "STOP" /\ last.calls[k].cd0 = 0
        /\ last.calls[k].cd1 = CooldownAfterStop /\ last.calls[k].post = NoPos
  /\ \E sid \in SidSet : cooldowns[sid] = CooldownAfterStop

\* two EmaSpec objects constructed with the same name, interval and length
SameEma(a, b) ==
  /\ a.kind = "ema" /\ b.kind = "ema"
  /\ a.name = b.name /\ a.interval = b.interval /\ Lengths(a) = Lengths(b)

\* the pairs of specs of two different strategies that are the same EmaSpec
SharedEmas ==
  {p \in (SidSet \X (1 .. 8)) \X (SidSet \X (1 .. 8)) :
     /\ p[1][1] # p[2][1]
     /\ p[1][2] \in DOMAIN indicator_specs(profiles[p[1][1]].type)
     /\ p[2][2] \in DOMAIN indicator_specs(profiles[p[2][1]].type)
     /\ SameEma(indicator_specs(profiles[p[1][1]].type)[p[1][2]],
                indicator_specs(profiles[p[2][1]].type)[p[2][2]])}

RowsOfKey(k) == {r \in DOMAIN md.tbl : SameOn({"symbol", "interval", "open_time"}, md.tbl[r], k)}

\* C27: after any number of upsert_kline calls, from the warmup or from the
\* WebSocket, the klines table holds one row for each (symbol, interval,
\* open_time) written, and the row of the key written last holds the values
\* of that call.
C27_UpsertIdempotent ==
  /\ \A r \in DOMAIN md.tbl : RowsOfKey(md.tbl[r]) = {r}
  /\ md.nup > 0 => \E r \in DOMAIN md.tbl : RowsOfKey(md.up) = {r} /\ md.tbl[r] = md.up

C27_Witness ==
  /\ md.nup = 3 /\ Len(md.tbl) = 2
  /\ md.up.source = "ws" /\ md.up.close = 200
  /\ \E r \in DOMAIN md.tbl : md.tbl[r].source = "rest"
  /\ md.tbl[1] = md.up

\* the setup of the claim on the values the indicator specs returned for the
\* last closed bars: the 1h filter, the touch of ema20 with the close beyond
\* ema60, RSI in the band and sloping, the MACD histogram of the last three
\* closed bars monotonic
LongSetup(cx) ==
  /\ AllowLong(cx.ind1[1], TestParams)
  /\ cx.bar[1].low <= cx.bar[1].ema20 /\ cx.bar[1].close > cx.bar[1].ema60
  /\ Len(cx.rsi) = 2 /\ cx.rsi[2] >= 50 /\ cx.rsi[2] <= 60 /\ cx.rsi[1] < cx.rsi[2]
  /\ Len(cx.macd) = 3 /\ cx.macd[1] < cx.macd[2] /\ cx.macd[2] < cx.macd[3]
ShortSetup(cx) ==
  /\ AllowShort(cx.ind1[1], TestParams)
  /\ cx.bar[1].high >= cx.bar[1].ema20 /\ cx.bar[1].close < cx.bar[1].ema60
  /\ Len(cx.rsi) = 2 /\ cx.rsi[2] >= 40 /\ cx.rsi[2] <= 50 /\ cx.rsi[1] > cx.rsi[2]
  /\ Len(cx.macd) = 3 /\ cx.macd[1] > cx.macd[2] /\ cx.macd[2] > cx.macd[3]

\* C28: with no position and no cooldown, on_bar_close of TestStrategy on
\* the context on_kline_close builds for a closed 15m bar returns a LONG
\* EntrySignal when the long setup holds on the last closed bars, and a SHORT
\* EntrySignal when the short setup holds.
C28_SetupGivesEntry ==
  md.cx.built =>
    /\ LongSetup(md.cx) => md.cx.dec = "LONG"
    /\ ShortSetup(md.cx) => md.cx.dec = "SHORT"

\* C29: on_tick is called only by a kline message with x = false and only for
\* a strategy whose profile sets realtime_entry or realtime_exit; a message
\* changes the position of no strategy with both flags off through on_tick, and
\* a message with x = true calls no on_tick.
C29_TickOnlyOnOpenBar ==
  md.tk.seen =>
    /\ md.tk.ticked # {} => ~md.tk.closed
    /\ \A sid \in md.tk.ticked :
          profiles[sid].realtime_entry \/ profiles[sid].realtime_exit
    /\ \A sid \in SidSet :
          (~profiles[sid].realtime_entry /\ ~profiles[sid].realtime_exit) =>
             /\ positions[sid] = md.tk.before[sid]
             /\ \A k \in DOMAIN last.calls : last.calls[k].sid # sid

\* stop < entry < tp1 <= tp2 for LONG, the reverse for SHORT
Ordered(sig) ==
  IF sig.side = "LONG"
  THEN sig.stop_price < sig.entry_price /\ sig.entry_price < sig.tp1_price
       /\ sig.tp1_price <= sig.tp2_price
  ELSE sig.stop_price > sig.entry_price /\ sig.entry_price > sig.tp1_price
       /\ sig.tp1_price >= sig.tp2_price

\* C30: every EntrySignal a built-in strategy (test, ma_cross,
\* simple_rsi_overtrade_strategy) builds has stop < entry < tp1 <= tp2 when
\* LONG and stop > entry > tp1 >= tp2 when SHORT, for every ATR, structure
\* stop and stop_loss_pct that is not negative.
C30_TargetsOrdered ==
  md.sg.signal.type = "entry" => Ordered(md.sg.signal)

\* the RsiSpec objects update_on_close updated in the last call: <<sid, i>>
RsiUpdated ==
  {p \in (DOMAIN ie.sts) \X (1 .. 8) :
     /\ p[2] \in DOMAIN ie.sts[p[1]]
     /\ indicator_specs(profiles[p[1]].type)[p[2]].kind = "rsi"
     /\ indicator_specs(profiles[p[1]].type)[p[2]].interval = ie.interval}

\* C31: RsiSpec.update returns None on the first close; from the second close
\* on it returns 100 when avg_loss = 0 and 100 - 100 / (1 + avg_gain /
\* avg_loss) otherwise.
C31_RsiValue ==
  ie.op = "update_on_close" =>
    \A p \in RsiUpdated :
      \A r \in {x \in ie.out[p[1]] :
                  x.name = indicator_specs(profiles[p[1]].type)[p[2]].name} :
        IF ie.pre[p[1]][p[2]].last_close = <<>> THEN r.value = <<>>
        ELSE IF ie.sts[p[1]][p[2]].avg_loss = <<0>> THEN r.value = <<Milli(100)>>
        ELSE r.value =
               <<Milli(100) - (Milli(100) * 1000)
                   \div (1000 + (ie.sts[p[1]][p[2]].avg_gain[1] * 1000)
                                  \div ie.sts[p[1]][p[2]].avg_loss[1])>>

\* C32: when an indicator a built-in strategy reads is None, its
\* on_bar_close and its on_tick return no EntrySignal and raise no exception.
C32_NullIndicatorSkips ==
  (md.nl.n > 0 /\ md.nl.nulls # {}) => md.nl.dec.type \notin {"entry", "raise"}

\* the step of the funding task that changes a balance (lines 193-196 of
\* apply_funding, after the SELECT on the ledger returned)
FundBalanceStep ==
  /\ fund.pc = "select" /\ fund'.pc = "insert"
  /\ accounts'[sids[fund.i]].balance # accounts[sids[fund.i]].balance

\* C33: apply_funding changes the balance of a strategy only if the strategy
\* still has an open position at the moment of the change: a position the
\* ingestion task closed while the funding task was suspended gets no funding.
C33_FundingNeedsOpenPosition ==
  [][FundBalanceStep => positions[sids[fund.i]] # NoPos]_vars

RECURSIVE SumSeq(_)
SumSeq(seq) == IF seq = <<>> THEN 0 ELSE Head(seq) + SumSeq(Tail(seq))

\* what the persisted trades of a strategy did to its balance: the positions
\* rows accumulate the realized PnL and the fee of every ENTRY and EXIT trade
\* (realized_pnl, fees_total), the ledger holds the funding settlements
PersistedNet(sid) ==
  SumSeq([i \in DOMAIN dbPositions |->
            IF dbPositions[i].strategy = sid
            THEN dbPositions[i].realized_pnl - dbPositions[i].fees_total ELSE 0])
  + SumSeq([i \in DOMAIN ledger |->
              IF ledger[i].strategy = sid /\ ledger[i].type = "funding"
              THEN ledger[i].amount ELSE 0])

\* C34: after a restart the balance of each strategy accounts for every trade
\* persisted before the process stopped: it is the initial capital plus the
\* realized PnL minus the fees of its ENTRY and EXIT trades (plus its funding
\* settlements).
C34_RestartKeepsTrades ==
  last.handler = "restart" =>
    \A sid \in SidSet :
      accounts[sid].balance = Tenths(InitialCapital) + PersistedNet(sid)

\* C35: after each on_kline_update or on_kline_close handler has returned,
\* the in-memory position of a strategy is non-null exactly when the
\* positions table has an OPEN row of the strategy, and its qty and
\* stop_price are those of the row.
C35_MemoryIsOpenRow ==
  last.handler \in {"close", "update"} =>
    \A sid \in SidSet :
      /\ positions[sid] # NoPos <=> OpenRowIds(dbPositions, sid) # {}
      /\ \A i \in OpenRowIds(dbPositions, sid) :
            /\ positions[sid].qty = dbPositions[i].qty
            /\ positions[sid].stop_price = dbPositions[i].stop_price

\* C36: after load_open_positions with several configured strategies, each
\* persisted OPEN row of the positions table is held in memory by at most one
\* strategy.
C36_RowHeldOnce ==
  last.handler = "restart" =>
    \A s, t \in SidSet :
      (s # t /\ LoadedRow(dbPositions, s) # NoRow)
         => LoadedRow(dbPositions, s) # LoadedRow(dbPositions, t)

\* the sum of the amounts of the ledger entries of a strategy (fee,
\* realized_pnl and funding)
LedgerSum(sid) ==
  SumSeq([i \in DOMAIN ledger |-> IF ledger[i].strategy = sid THEN ledger[i].amount ELSE 0])

\* C37: for each strategy, at the end of every event, the balance is the
\* initial capital plus the sum of the ledger amounts of the strategy.
C37_BalanceIsLedger ==
  last.handler \in {"close", "update"} =>
    \A sid \in SidSet : accounts[sid].balance = Tenths(InitialCapital) + LedgerSum(sid)

\* the trades of one kind written for a positions row
TradesOf(row, kind) ==
  SelectSeq(trades, LAMBDA t : t.position_id = row.position_id /\ t.trade_type = kind)

\* C38: for every CLOSED position the qty of its EXIT trades sums to the qty
\* of its ENTRY trade, fees_total is the sum of fee_amount over its trades and
\* realized_pnl is the sum of the realized PnL of its exits.
C38_ClosedPositionSums ==
  \A i \in DOMAIN dbPositions :
    dbPositions[i].status = "CLOSED" =>
      LET row == dbPositions[i]
          entries == TradesOf(row, "ENTRY")
          exits == TradesOf(row, "EXIT")
      IN /\ Len(entries) = 1
         /\ SumSeq([k \in DOMAIN exits |-> exits[k].qty]) = entries[1].qty
         /\ row.fees_total = entries[1].fee_amount
                             + SumSeq([k \in DOMAIN exits |-> exits[k].fee_amount])
         /\ row.realized_pnl =
              SumSeq([k \in DOMAIN exits |->
                        calc_realized_pnl(row, exits[k].price, exits[k].qty)])

\* C38, second part: no EXIT trade is written for a position after it is
\* CLOSED.
C38_NoExitAfterClosed ==
  [][\A k \in (DOMAIN trades') \ (DOMAIN trades) :
       trades'[k].trade_type = "EXIT" =>
         \A i \in DOMAIN dbPositions :
            dbPositions[i].position_id = trades'[k].position_id
               => dbPositions[i].status = "OPEN"]_vars

\* C39: the retry counter is reset to 0 by every connection that was
\* established, however it ends (when run() sleeps after one, it has counted
\* that one retry only), so with max_retries = N > 0 the client gives up only
\* after N attempts in a row that failed to connect.
C39_ResetOnEstablished ==
  /\ (md.ws.pc = "sleep" /\ md.ws.est) => md.ws.retries = 1
  /\ (md.ws.pc = "ended" /\ ~md.ws.stop /\ md.ws.max_retries > 0)
        => md.ws.unest >= md.ws.max_retries

====
